---- MODULE Spec2Model ----
(***************************************************************************)
(* The Streamable-HTTP request handler of medical-mcp (src/src/index.ts,   *)
(* main): CORS and origin checks, content negotiation, body parsing,       *)
(* protocol-version negotiation, session routing over the `transports`     *)
(* and `servers` tables, and session close.                                *)
(*                                                                         *)
(* Node runs a handler to completion between awaits: one task at a time    *)
(* runs on the event loop.  `last` records what the running task read,     *)
(* answered and handed over; Return gives the event loop back, and a task  *)
(* starts only when the event loop is free.                                *)
(*                                                                         *)
(* The code from the end of body reading (line 1676) to the call of        *)
(* transport.handleRequest (lines 1748 / 1791) contains no await, and the  *)
(* code before it reads only the request and the process environment, so   *)
(* one action models the handler from the arrival of the request to its    *)
(* first await after the routing decision.  The                            *)
(* `await server.connect(transport)` of the initialize branch is a         *)
(* suspension point of its own (ConnectDone).                              *)
(***************************************************************************)
EXTENDS Integers, Sequences, FiniteSets, TLC

VARIABLES
    env,         \* process environment read by main(): NODE_ENV, ENABLE_DNS_REBINDING_PROTECTION
    transports,  \* index.ts:1603  session id -> transport
    servers,     \* index.ts:1604  session id -> per-session McpServer
    trs,         \* every StreamableHTTPServerTransport built so far (index.ts:1762)
    last,        \* what the task running on the event loop read, answered and handed over
    runs,        \* the calls of gracefulShutdown (index.ts:1916) made so far
    listening,   \* httpServer accepts connections (index.ts:1898, 1946)
    exit,        \* "running", or the code process.exit was called with
    call,        \* the tool call served last by a per-session McpServer (index.ts:406)
    now,         \* Date.now() (index.ts:460)
    lastDrugSearchCall,  \* index.ts:461, 468  global.__lastDrugSearchCall
    cache,       \* the gateway's cache: key -> payload and insertion timestamp
    lastSentAt,  \* the gateway's throttle: time of the last upstream send, 0 before any
    fetches,     \* the calls of the gateway's fetch made so far
    sends        \* the requests sent to the PBS API so far

vars == <<env, transports, servers, trs, last, runs, listening, exit, call, now,
          lastDrugSearchCall, cache, lastSentAt, fetches, sends>>

\* State of the PBS gateway.
gateway == <<cache, lastSentAt, fetches, sends>>

\* State of the tool layer, which the HTTP handler and the shutdown path
\* never touch.
tools == <<call, now, lastDrugSearchCall, gateway>>

proc == <<runs, listening, exit>>

----------------------------------------------------------------------------
(* Bounds and input alphabets *)

\* Number of transports (initialize requests routed) in one run.
MaxSessions == 2

\* Length of a clock step, and the last instant of a run (ms).
TickMs == 500

MaxClock == 2000

\* Number of gateway fetches in one run.
MaxFetches == 3

\* The instants at which a run of the gateway is observed lie a number of
\* half minimum intervals and a number of TTLs after its start.
MaxShortWaits == 2

MaxLongWaits == 1

UuidName == <<"uuid-1", "uuid-2", "uuid-3", "uuid-4">>

\* The values randomUUID() returns in a run.  Session ids are opaque to the
\* handler (it only compares them and uses them as keys), so the n-th value
\* generated is named UuidName[n].
UUIDs == {UuidName[i] : i \in 1..MaxSessions}

\* Names every plain object inherits from Object.prototype; never a UUID.
ProtoKeys == {"constructor"}

\* req.headers[name] of an absent header (undefined).
NoHeader == "<absent>"

SidValues == {NoHeader, ""} \cup UUIDs \cup ProtoKeys

VersionValues == {NoHeader, "", "2025-06-18", "2025-03-26", "9999-99-99"}

\* Origin header: absent, allowed by both origin lists, or foreign.
Origins == {NoHeader, "http://localhost:3000", "http://evil.example"}

\* Accept header, as the set of media types it lists ({} when absent).
AcceptValues == {{}, {"application/json"}, {"application/json", "text/event-stream"}}

\* Requests whose URL has the pathname /mcp (index.ts:1618).
Requests ==
    [path : {"/mcp"}, method : {"POST"}, sid : SidValues, version : VersionValues,
     accept : AcceptValues, origin : Origins,
     body : {"invalid_json", "initialize", "other"}]
    \cup
    [path : {"/mcp"}, method : {"GET", "DELETE", "OPTIONS"}, sid : SidValues,
     version : VersionValues, accept : {{}}, origin : Origins, body : {"none"}]

Envs == {[production |-> FALSE, dnsFlag |-> FALSE],
         [production |-> FALSE, dnsFlag |-> TRUE],
         [production |-> TRUE,  dnsFlag |-> FALSE]}

----------------------------------------------------------------------------
(* Responses *)

NoData == [supported |-> <<>>, requested |-> NoHeader]

JsonRpcError(status, code, message) ==
    [status |-> status, jsonrpc |-> TRUE, code |-> code, message |-> message,
     data |-> NoData, by |-> "handler"]

PlainResponse(status, message) ==
    [status |-> status, jsonrpc |-> FALSE, code |-> 0, message |-> message,
     data |-> NoData, by |-> "handler"]

\* No response written in this step (the request is suspended, or the step
\* is not a request).
NoResponse == PlainResponse(0, "none")

\* A response written by the SDK transport the request was handed to.
TransportResponse(ok) ==
    [status |-> IF ok THEN 200 ELSE 400, jsonrpc |-> ~ok, code |-> 0,
     message |-> "transport", data |-> NoData, by |-> "transport"]

----------------------------------------------------------------------------
(* Pure parts of the handler *)

\* index.ts:1592
enableDnsRebindingProtection == env.production \/ env.dnsFlag

\* index.ts:31-36, ALLOWED_ORIGINS unset
CorsAllowedOrigins == {"http://localhost:3000", "http://localhost:3200"}

\* A string header value is truthy unless it is absent or empty.
Truthy(h) == h /= NoHeader /\ h /= ""

\* index.ts:29-74  FALSE when setCorsHeaders has sent the 403 itself
setCorsHeaders(r) ==
    IF Truthy(r.origin) /\ env.production
    THEN r.origin \in CorsAllowedOrigins
    ELSE TRUE

\* index.ts:1629-1635, ALLOWED_ORIGINS unset, default host and port
DnsAllowedOrigins == {"http://localhost:3000"}

\* An origin check that only NODE_ENV=production switches on.
OriginForbidden_ProductionOnly(r) ==
    /\ env.production
    /\ Truthy(r.origin)
    /\ r.origin \notin DnsAllowedOrigins

\* index.ts:1627-1650  `origin && !allowedOrigins.includes(origin)`
OriginForbidden(r) ==
    /\ enableDnsRebindingProtection
    /\ Truthy(r.origin)
    /\ r.origin \notin DnsAllowedOrigins


\* NotAcceptable with `||` for `&&`: one of the two media types is enough.
NotAcceptable_Either(r) ==
    /\ r.method = "POST"
    /\ ~("application/json" \in r.accept \/ "text/event-stream" \in r.accept)

\* index.ts:1652-1667
NotAcceptable(r) ==
    /\ r.method = "POST"
    /\ ~("application/json" \in r.accept /\ "text/event-stream" \in r.accept)

\* ParseError with body parsing left to the transport when the request names
\* a session.
ParseError_SessionlessOnly(r) ==
    r.method = "POST" /\ r.body = "invalid_json" /\ ~Truthy(r.sid)

\* index.ts:1671-1692  JSON.parse(rawBody) throws
ParseError(r) == r.method = "POST" /\ r.body = "invalid_json"

\* index.ts:1696
supportedVersions == <<"2025-06-18", "2025-03-26">>

Includes(seq, v) == \E i \in 1..Len(seq) : seq[i] = v

\* VersionRejected without the negation of `includes`.
VersionRejected_Inverted(r) == Truthy(r.version) /\ Includes(supportedVersions, r.version)

\* VersionRejected placed inside the POST branch only.
VersionRejected_PostOnly(r) ==
    r.method = "POST" /\ Truthy(r.version) /\ ~Includes(supportedVersions, r.version)

\* index.ts:1698
VersionRejected(r) == Truthy(r.version) /\ ~Includes(supportedVersions, r.version)

\* negotiatedVersion defaulting to the newest supported version.
negotiatedVersion_Latest(r) == IF Truthy(r.version) THEN r.version ELSE "2025-06-18"

\* index.ts:1724
negotiatedVersion(r) == IF Truthy(r.version) THEN r.version ELSE "2025-03-26"

\* Property read table[key] on a plain object literal ({}): an own key gives
\* its value, an inherited name gives the inherited (truthy) value, anything
\* else undefined.  Transports are numbered from 1; 0 is undefined and -1 an
\* inherited value that is no transport.
Lookup(table, key) ==
    IF key \in DOMAIN table THEN table[key]
    ELSE IF key \in ProtoKeys THEN -1
    ELSE 0

\* The initialize branch without the isInitializeRequest test.
isInitializeRequest_AnyBody(r) == TRUE

\* index.ts:1750  isInitializeRequest(body) of the SDK, on the parsed body
isInitializeRequest(r) == r.body = "initialize"

\* `delete table[key]`: removes an own key, does nothing otherwise
Delete(table, key) == [k \in DOMAIN table \ {key} |-> table[k]]

Put(table, key, val) == [k \in DOMAIN table \cup {key} |-> IF k = key THEN val ELSE table[k]]

\* Session ids generated so far.
Issued == {trs[t].sessionId : t \in DOMAIN trs} \ {NoHeader}

\* A generator that hands out the ids of closed sessions again (a freed pool).
randomUUID_FreedPool ==
    LET freed == {trs[t].sessionId : t \in {u \in DOMAIN trs : trs[u].closed}} \ {NoHeader}
    IN  IF freed /= {} THEN freed
        ELSE IF Issued = UUIDs THEN {} ELSE {UuidName[Cardinality(Issued) + 1]}

\* index.ts:1763  sessionIdGenerator: () => randomUUID().  A random version-4
\* UUID: a value that was not generated before (a collision of two random
\* 122-bit values is not modelled).
randomUUID ==
    IF Issued = UUIDs THEN {} ELSE {UuidName[Cardinality(Issued) + 1]}

----------------------------------------------------------------------------
(* State *)

NoRequest ==
    [path |-> "none", method |-> "none", sid |-> NoHeader, version |-> NoHeader,
     accept |-> {}, origin |-> NoHeader, body |-> "none"]

Observation(kind, r, resp, t, bodyRead, tableRead, built, negotiated) ==
    [kind |-> kind, req |-> r, resp |-> resp, handedTo |-> t,
     bodyRead |-> bodyRead, tableRead |-> tableRead, built |-> built,
     negotiated |-> negotiated]

\* No task is running: the event loop is free.
Idle == Observation("idle", NoRequest, NoResponse, 0, FALSE, FALSE, FALSE, NoHeader)

\* `{}`: a plain object with no own keys (index.ts:1603-1604)
EmptyTable == [k \in {} |-> 0]

\* No tool has been called.
NoCall == [tool |-> "none", text |-> "none", raised |-> FALSE, threw |-> FALSE,
           isError |-> FALSE, protocolError |-> FALSE, upstreamFailed |-> FALSE,
           requested |-> FALSE, sid |-> "none"]

Init ==
    /\ env \in Envs
    /\ transports = EmptyTable
    /\ servers = EmptyTable
    /\ trs = <<>>
    /\ last = Idle
    /\ runs = <<>>
    /\ listening = TRUE
    /\ exit = "running"
    /\ call = NoCall
    \* `global.__lastDrugSearchCall || 0`, and a clock that is past the epoch
    /\ lastDrugSearchCall = 0
    /\ now = 2 * TickMs
    /\ cache = EmptyTable
    /\ lastSentAt = 0
    /\ fetches = <<>>
    /\ sends = <<>>

----------------------------------------------------------------------------
(* Session registration and close callbacks *)

\* onsessioninitialized closing over a `transport` variable shared by all
\* requests: it registers the transport built last.
onsessioninitialized_Shared(t, sessionId) ==
    /\ transports' = Put(transports, sessionId, Len(trs))
    /\ servers' = Put(servers, sessionId, Len(trs))

\* index.ts:1764-1773  onsessioninitialized callback of transport t
onsessioninitialized(t, sessionId) ==
    /\ transports' = Put(transports, sessionId, t)
    /\ servers' = Put(servers, sessionId, t)

\* onclose closing over a `transport` variable shared by all requests: it
\* removes the session of the transport built last.
oncloseTable_Shared(table, t) ==
    IF Truthy(trs[Len(trs)].sessionId) THEN Delete(table, trs[Len(trs)].sessionId) ELSE table

\* index.ts:1780-1787  what transport.onclose of transport t does to a table
oncloseTable(table, t) ==
    IF Truthy(trs[t].sessionId) THEN Delete(table, trs[t].sessionId) ELSE table

\* onclose without `delete transports[transport.sessionId]`.
onclose_KeepsTransport(t) ==
    /\ servers' = oncloseTable(servers, t)
    /\ UNCHANGED transports

\* onclose without `delete servers[transport.sessionId]`.
onclose_KeepsServer(t) ==
    /\ transports' = oncloseTable(transports, t)
    /\ UNCHANGED servers

\* index.ts:1779-1788  transport.onclose of transport t
onclose(t) ==
    /\ servers' = oncloseTable(servers, t)
    /\ transports' = oncloseTable(transports, t)

\* transport.close() of the SDK: releases the streams and calls onclose.
close(t) ==
    /\ onclose(t)
    /\ trs' = [trs EXCEPT ![t].closed = TRUE]

\* index.ts:1748  transport.handleRequest(req, res, body) on the transport of
\* an existing session.  The SDK transport either serves the request (ok) or
\* answers it with an error of its own; serving a DELETE closes the transport.
handleRequest(t, r, ok) ==
    /\ IF r.method = "DELETE" /\ ok
       THEN close(t)
       ELSE UNCHANGED <<transports, servers, trs>>
    /\ last' = Observation("request", r, TransportResponse(ok), t,
                           r.method = "POST", TRUE, FALSE, negotiatedVersion(r))

----------------------------------------------------------------------------
(* The request handler, index.ts:1607-1896, for requests to /mcp *)

\* The handler answers by itself and returns.
Answer(r, resp, bodyRead, tableRead, negotiated) ==
    /\ last' = Observation("request", r, resp, 0, bodyRead, tableRead, FALSE, negotiated)
    /\ UNCHANGED <<transports, servers, trs>>

\* index.ts:1740-1819
Route(r) ==
    LET sessionId == r.sid
        found == IF Truthy(sessionId) THEN Lookup(transports, sessionId) ELSE 0
        isPost == r.method = "POST"
    IN  IF Truthy(sessionId) /\ found /= 0
        THEN IF found \in DOMAIN trs
             THEN \E ok \in BOOLEAN : handleRequest(found, r, ok)
             \* found is no transport: calling its handleRequest throws a
             \* TypeError, caught at index.ts:1890-1895
             ELSE Answer(r, PlainResponse(500, "internal_server_error"),
                         isPost, TRUE, negotiatedVersion(r))
        ELSE IF ~Truthy(sessionId) /\ isPost /\ isInitializeRequest(r)
        THEN \* index.ts:1760-1791, up to `await server.connect(transport)`
             /\ Len(trs) < MaxSessions
             /\ trs' = Append(trs, [sessionId |-> NoHeader, state |-> "connecting", closed |-> FALSE])
             /\ last' = Observation("request", r, NoResponse, 0, TRUE, FALSE, TRUE,
                                    negotiatedVersion(r))
             /\ UNCHANGED <<transports, servers>>
        ELSE Answer(r, JsonRpcError(400, -32000, "no_valid_session"),
                    isPost, Truthy(sessionId), negotiatedVersion(r))

\* index.ts:1707-1719
VersionError(r) ==
    [JsonRpcError(400, -32602, "unsupported_protocol_version") EXCEPT
        !.data = [supported |-> supportedVersions, requested |-> r.version]]

\* The routing block leaving DELETE to the code after it.
inMcpBlock_ExceptDelete(r) == r.path = "/mcp" /\ r.method /= "DELETE"

\* index.ts:1618  `if (reqUrl.pathname === '/mcp')`: the request is handled
\* by the MCP routing block, every branch of which returns.
inMcpBlock(r) == r.path = "/mcp"

\* healthCheck that leaves every request bearing a session id to the
\* session code.
healthCheck_Sessionless(r) == r.method = "GET" /\ r.path = "/health" /\ ~Truthy(r.sid)

\* index.ts:1880
healthCheck(r) == r.method = "GET" /\ r.path = "/health"

\* index.ts:1823-1876  the body of the DELETE termination block.  A found
\* entry that is no transport makes both close calls throw inside their own
\* try blocks; the answer is 200 all the same.
sessionTermination(r) ==
    LET sessionId == r.sid
        found == IF Truthy(sessionId) THEN Lookup(transports, sessionId) ELSE 0
    IN  IF ~Truthy(sessionId)
        THEN Answer(r, JsonRpcError(400, -32000, "no_session_id_for_termination"),
                    FALSE, FALSE, NoHeader)
        ELSE IF found /= 0
        THEN /\ IF found \in DOMAIN trs
                THEN close(found)
                ELSE UNCHANGED <<transports, servers, trs>>
             /\ last' = Observation("request", r, PlainResponse(200, "session_terminated"),
                                    0, FALSE, TRUE, FALSE, NoHeader)
        ELSE Answer(r, JsonRpcError(404, -32000, "session_not_found"),
                    FALSE, TRUE, NoHeader)

\* index.ts:1822-1889  the handler past the MCP routing block: the DELETE
\* termination block, the health check, the 404.
AfterMcpBlock(r) ==
    IF r.method = "DELETE" /\ r.path = "/mcp"
    THEN sessionTermination(r)
    ELSE IF healthCheck(r)
    THEN Answer(r, PlainResponse(200, "status_ok_timestamp"), FALSE, FALSE, NoHeader)
    ELSE Answer(r, PlainResponse(404, "not_found"), FALSE, FALSE, NoHeader)

McpRequest(r) ==
    /\ last = Idle
    /\ exit = "running"
    /\ listening
    /\ UNCHANGED <<env, proc, tools>>
    /\ IF ~setCorsHeaders(r)
       THEN Answer(r, JsonRpcError(403, -32000, "cors_origin_not_allowed"), FALSE, FALSE, NoHeader)
       ELSE IF ~inMcpBlock(r)
       THEN AfterMcpBlock(r)
       ELSE IF r.method = "OPTIONS"
       THEN Answer(r, PlainResponse(200, "preflight"), FALSE, FALSE, NoHeader)
       ELSE IF OriginForbidden(r)
       THEN Answer(r, JsonRpcError(403, -32000, "invalid_origin"), FALSE, FALSE, NoHeader)
       ELSE IF NotAcceptable(r)
       THEN Answer(r, JsonRpcError(406, -32000, "not_acceptable"), FALSE, FALSE, NoHeader)
       ELSE IF ParseError(r)
       THEN Answer(r, JsonRpcError(400, -32700, "parse_error"), TRUE, FALSE, NoHeader)
       ELSE IF VersionRejected(r)
       THEN Answer(r, VersionError(r), r.method = "POST", FALSE, NoHeader)
       ELSE Route(r)

\* index.ts:1791-1795  the initialize request resumes after
\* `await server.connect(transport)` and is handed to its new transport: the
\* SDK either initializes the session (sessionIdGenerator, then
\* onsessioninitialized) or rejects the request.
ConnectDone(t) ==
    /\ last = Idle
    /\ exit = "running"
    /\ t \in DOMAIN trs
    /\ trs[t].state = "connecting"
    /\ \E ok \in BOOLEAN :
         /\ IF ok
            THEN \E id \in randomUUID :
                    /\ trs' = [trs EXCEPT ![t] = [@ EXCEPT !.sessionId = id, !.state = "ready"]]
                    /\ onsessioninitialized(t, id)
            ELSE /\ trs' = [trs EXCEPT ![t].state = "ready"]
                 /\ UNCHANGED <<transports, servers>>
         /\ last' = Observation("resume", NoRequest, TransportResponse(ok), t,
                                TRUE, FALSE, FALSE, NoHeader)
    /\ UNCHANGED <<env, proc, tools>>

\* close() is called on a connected transport by the SDK on its own
\* (server.close(), a transport error), any number of times.
TransportClose(t) ==
    /\ last = Idle
    /\ exit = "running"
    /\ t \in DOMAIN trs
    /\ trs[t].state = "ready"
    /\ close(t)
    /\ last' = Observation(IF trs[t].closed THEN "close_again" ELSE "close",
                           [NoRequest EXCEPT !.sid = trs[t].sessionId],
                           NoResponse, t, FALSE, FALSE, FALSE, NoHeader)
    /\ UNCHANGED <<env, proc, tools>>

\* The running task returns or awaits: the event loop is free again.
Return ==
    /\ last /= Idle
    /\ last' = Idle
    /\ UNCHANGED <<env, transports, servers, trs, proc, tools>>

\* A request to /mcp arrives and its handler runs.
Request == last = Idle /\ \E r \in Requests : McpRequest(r)

Next ==
    \/ Request
    \/ \E t \in 1..MaxSessions : ConnectDone(t)
    \/ \E t \in 1..MaxSessions : TransportClose(t)
    \/ Return

Spec == Init /\ [][Next]_vars

----------------------------------------------------------------------------
(* Requests to other paths, index.ts:1609-1618 and 1879-1895 *)

\* req.url and the Host header do not make a URL: `new URL(...)` at
\* index.ts:1609 throws.
InvalidUrl == "<invalid url>"

OtherRequests ==
    [path : {"/health", "/other", InvalidUrl}, method : {"GET", "POST", "DELETE"},
     sid : SidValues, version : {NoHeader, "9999-99-99"}, accept : {{}},
     origin : Origins, body : {"none"}]

\* index.ts:1607-1617 and 1879-1895  the handler, for a request whose URL
\* does not have the pathname /mcp.  The body of such a request is not read.
OtherRequest(r) ==
    /\ last = Idle
    /\ exit = "running"
    /\ listening
    /\ UNCHANGED <<env, proc, tools>>
    /\ IF r.path = InvalidUrl
       THEN Answer(r, PlainResponse(500, "internal_server_error"), FALSE, FALSE, NoHeader)
       ELSE IF ~setCorsHeaders(r)
       THEN Answer(r, JsonRpcError(403, -32000, "cors_origin_not_allowed"), FALSE, FALSE, NoHeader)
       ELSE AfterMcpBlock(r)

OtherPathRequest == last = Idle /\ \E r \in OtherRequests : OtherRequest(r)

NextHttp ==
    \/ Request
    \/ OtherPathRequest
    \/ \E t \in 1..MaxSessions : ConnectDone(t)
    \/ \E t \in 1..MaxSessions : TransportClose(t)
    \/ Return

SpecHttp == Init /\ [][NextHttp]_vars

----------------------------------------------------------------------------
(* Graceful shutdown, index.ts:1916-1997 *)

\* Number of shutdown triggers (signals, uncaught exceptions, unhandled
\* rejections) in one run.
MaxShutdowns == 2

RECURSIVE CloseAll(_, _)
\* onclose of every transport of T, applied to a table
CloseAll(table, T) ==
    IF T = {} THEN table
    ELSE LET t == CHOOSE x \in T : TRUE
         IN  CloseAll(oncloseTable(table, t), T \ {t})

\* index.ts:1946  httpServer.close(callback): the stage the run enters.
\* Closing a server that is not listening reports ERR_SERVER_NOT_RUNNING to
\* the callback.
serverCloseStage == IF listening THEN "server_closing" ELSE "server_close_error"

\* index.ts:1916-1943  gracefulShutdown(signal), up to
\* `await Promise.allSettled(shutdownPromises)`: the callback of every entry
\* of Object.entries(transports) runs up to its `await transport.close()`,
\* so close() (and with it onclose) has run on every transport of the table.
\* With no entry there is nothing to wait for: allSettled([]) is resolved,
\* and the run goes on to httpServer.close (index.ts:1946-1970) before any
\* other event is served.
startShutdown(signal) ==
    LET snapshot == DOMAIN transports
        closing == {transports[id] : id \in snapshot}
    IN  /\ trs' = [t \in DOMAIN trs |->
                     IF t \in closing THEN [trs[t] EXCEPT !.closed = TRUE] ELSE trs[t]]
        /\ transports' = CloseAll(transports, closing)
        /\ servers' = CloseAll(servers, closing)
        /\ runs' = Append(runs, [signal |-> signal, pending |-> snapshot,
                                 stage |-> IF snapshot = {} THEN serverCloseStage ELSE "closing"])
        /\ listening' = IF snapshot = {} THEN FALSE ELSE listening

\* index.ts:1973-1987  a signal (SIGTERM, SIGINT, SIGHUP) or an uncaught
\* exception in background code calls gracefulShutdown
gracefulShutdown ==
    /\ last = Idle
    /\ exit = "running"
    /\ Len(runs) < MaxShutdowns
    /\ startShutdown("SIGTERM")
    /\ last' = Observation("shutdown", NoRequest, NoResponse, 0, FALSE, TRUE, FALSE, NoHeader)
    /\ UNCHANGED <<env, exit, tools>>

\* The request gets past every check that precedes the routing decision
\* (index.ts:1611-1721).
ReachesRouting(r) ==
    /\ setCorsHeaders(r)
    /\ r.method /= "OPTIONS"
    /\ ~OriginForbidden(r)
    /\ ~NotAcceptable(r)
    /\ ~ParseError(r)
    /\ ~VersionRejected(r)

\* index.ts:1890-1895  the outer catch, entered with an exception thrown by
\* transport t while it served r.  When the response headers are already
\* sent, res.setHeader throws ERR_HTTP_HEADERS_SENT inside the catch block:
\* the promise of the async listener rejects, nothing handles it, and the
\* 'unhandledRejection' handler (index.ts:1989-1997) calls gracefulShutdown
\* before any other event is served.
catchServerError(kind, r, t, headersSent) ==
    IF ~headersSent
    THEN /\ last' = Observation(kind, r, PlainResponse(500, "internal_server_error"), t,
                                r.method = "POST", TRUE, FALSE, negotiatedVersion(r))
         /\ UNCHANGED <<transports, servers, trs, proc>>
    ELSE /\ Len(runs) < MaxShutdowns
         /\ startShutdown("UNHANDLED_REJECTION")
         /\ last' = Observation(kind, r, [TransportResponse(TRUE) EXCEPT !.message = "headers_sent"],
                                t, r.method = "POST", TRUE, FALSE, negotiatedVersion(r))
         /\ UNCHANGED exit

\* index.ts:1744-1748  a request for a live session whose
\* transport.handleRequest throws, before or after it has written the
\* response headers.
McpRequestThrows(r, headersSent) ==
    /\ last = Idle
    /\ exit = "running"
    /\ listening
    /\ ReachesRouting(r)
    /\ Truthy(r.sid)
    /\ Lookup(transports, r.sid) \in DOMAIN trs
    /\ catchServerError("request", r, Lookup(transports, r.sid), headersSent)
    /\ UNCHANGED <<env, tools>>

\* index.ts:1791  `await server.connect(transport)` rejects: the initialize
\* request is answered by the outer catch, nothing having been written.
ConnectThrows(t) ==
    /\ last = Idle
    /\ exit = "running"
    /\ t \in DOMAIN trs
    /\ trs[t].state = "connecting"
    /\ trs' = [trs EXCEPT ![t].state = "failed"]
    /\ last' = Observation("resume", NoRequest, PlainResponse(500, "internal_server_error"), t,
                           TRUE, FALSE, FALSE, NoHeader)
    /\ UNCHANGED <<env, transports, servers, proc, tools>>

\* index.ts:1933  the callback of entry sessionId of run i resumes after
\* `await transport.close()`
ShutdownDelete(i, sessionId) ==
    /\ last = Idle
    /\ exit = "running"
    /\ i \in DOMAIN runs
    /\ sessionId \in runs[i].pending
    /\ transports' = Delete(transports, sessionId)
    /\ runs' = [runs EXCEPT ![i].pending = @ \ {sessionId}]
    /\ last' = Observation("shutdown_delete", [NoRequest EXCEPT !.sid = sessionId],
                           NoResponse, 0, FALSE, TRUE, FALSE, NoHeader)
    /\ UNCHANGED <<env, servers, trs, listening, exit, tools>>

\* index.ts:1943-1970  run i resumes after Promise.allSettled: it calls
\* httpServer.close(callback) and arms the 10 s timer.
ShutdownSettled(i) ==
    /\ last = Idle
    /\ exit = "running"
    /\ i \in DOMAIN runs
    /\ runs[i].stage = "closing"
    /\ runs[i].pending = {}
    /\ runs' = [runs EXCEPT ![i].stage = serverCloseStage]
    /\ listening' = FALSE
    /\ last' = Observation("shutdown_settled", NoRequest, NoResponse, 0, FALSE, FALSE, FALSE, NoHeader)
    /\ UNCHANGED <<env, transports, servers, trs, exit, tools>>

\* The callbacks of httpServer.close run in any order, whichever call they
\* were given to.
ServerClosed_AnyOrder(i) ==
    /\ last = Idle
    /\ exit = "running"
    /\ i \in DOMAIN runs
    /\ runs[i].stage \in {"server_closing", "server_close_error"}
    /\ runs[i].stage = "server_closing" => \A t \in DOMAIN trs : trs[t].state /= "connecting"
    /\ exit' = IF runs[i].stage = "server_closing" THEN "exit 0" ELSE "exit 1"
    /\ runs' = [runs EXCEPT ![i].stage = IF runs[i].stage = "server_closing"
                                          THEN "shutdown_complete"
                                          ELSE "server_close_error_logged"]
    /\ UNCHANGED <<env, transports, servers, trs, last, listening, tools>>

\* index.ts:1946-1960  the callback of httpServer.close of run i runs and
\* logs its event (shutdown_complete, or server_close_error).  Node calls
\* the callbacks of every close call on the one 'close' event of the
\* server, emitted when the open connections are gone, in the order of the
\* calls: a callback given to a close call on a server that was no longer
\* listening runs after the callback of the call that stopped it.
ServerClosed(i) ==
    /\ last = Idle
    /\ exit = "running"
    /\ i \in DOMAIN runs
    /\ runs[i].stage \in {"server_closing", "server_close_error"}
    \* the 'close' event waits for the open connections: no request is
    \* still suspended
    /\ \A t \in DOMAIN trs : trs[t].state /= "connecting"
    /\ runs[i].stage = "server_close_error"
          => \A j \in DOMAIN runs : runs[j].stage /= "server_closing"
    /\ exit' = IF runs[i].stage = "server_closing" THEN "exit 0" ELSE "exit 1"
    /\ runs' = [runs EXCEPT ![i].stage = IF runs[i].stage = "server_closing"
                                          THEN "shutdown_complete"
                                          ELSE "server_close_error_logged"]
    /\ UNCHANGED <<env, transports, servers, trs, last, listening, tools>>

\* index.ts:1962-1970  the timer armed by run i fires and logs
\* forced_shutdown
ForcedExit(i) ==
    /\ last = Idle
    /\ exit = "running"
    /\ i \in DOMAIN runs
    /\ runs[i].stage \in {"server_closing", "server_close_error"}
    /\ exit' = "exit 1"
    /\ runs' = [runs EXCEPT ![i].stage = "forced_shutdown"]
    /\ UNCHANGED <<env, transports, servers, trs, last, listening, tools>>

\* Requests with no Origin header, an acceptable Accept header and no
\* declared version: the ones that reach the routing decision.
LifecycleRequests ==
    {r \in Requests :
        /\ r.origin = NoHeader
        /\ r.version = NoHeader
        /\ r.method /= "OPTIONS"
        /\ r.sid /= ""
        /\ r.body \in {"none", "initialize", "other"}
        /\ r.method = "POST" => r.accept = {"application/json", "text/event-stream"}}

LifecycleRequest == last = Idle /\ \E r \in LifecycleRequests : McpRequest(r)

LifecycleRequestThrows ==
    last = Idle /\ \E r \in LifecycleRequests : \E headersSent \in BOOLEAN :
                      McpRequestThrows(r, headersSent)

NextLifecycle ==
    \/ LifecycleRequest
    \/ LifecycleRequestThrows
    \/ \E t \in 1..MaxSessions : ConnectThrows(t)
    \/ \E t \in 1..MaxSessions : ConnectDone(t)
    \/ \E t \in 1..MaxSessions : TransportClose(t)
    \/ Return
    \/ gracefulShutdown
    \/ \E i \in 1..MaxShutdowns : \E id \in UUIDs : ShutdownDelete(i, id)
    \/ \E i \in 1..MaxShutdowns : ShutdownSettled(i)
    \/ \E i \in 1..MaxShutdowns : ServerClosed(i)
    \/ \E i \in 1..MaxShutdowns : ForcedExit(i)

SpecLifecycle == Init /\ [][NextLifecycle]_vars

\* The steps the process takes by itself are taken, however many requests
\* keep the event loop busy in between: a running task returns, a shutdown
\* whose closes have all settled goes on, the callback of httpServer.close
\* runs once the connections are gone, an armed timer fires.  What the SDK
\* and the network complete (server.connect, transport.close, a request
\* arriving) may never come.
SpecLifecycleFair ==
    /\ SpecLifecycle
    /\ WF_vars(Return)
    /\ \A i \in 1..MaxShutdowns :
          /\ SF_vars(ShutdownSettled(i))
          /\ SF_vars(ServerClosed(i))
          /\ SF_vars(ForcedExit(i))

----------------------------------------------------------------------------
(* The tools of a per-session server, index.ts:406-1587 (buildServer) *)

(* A tool call reaches its handler through the SDK: the request handler     *)
(* hands a POST of a live session to the session's transport                *)
(* (index.ts:1748), the transport passes the tools/call message to the      *)
(* McpServer connected to it, and McpServer runs the callback given to      *)
(* registerTool.  A handler reads and writes no state of the process, but   *)
(* for the time of the last drug search, which search-drugs reads and       *)
(* writes with no await in between; so one action models one call.          *)
(* Strings that the code inspects character by character are sequences of   *)
(* one-character strings.                                                   *)

\* index.ts:462  `if (now - lastCall < 1000)`
RateLimitMs == 1000

Whitespace == {" "}

Digits == {"0", "1", "2", "3", "4", "5", "6", "7", "8", "9"}

UpperLetters == {"P", "X"}

\* String.prototype.toUpperCase on the letters of the alphabet used here
UpperOf == ("p" :> "P") @@ ("x" :> "X")

RECURSIVE TrimLeft(_)
TrimLeft(s) == IF s /= <<>> /\ Head(s) \in Whitespace THEN TrimLeft(Tail(s)) ELSE s

RECURSIVE TrimRight(_)
TrimRight(s) ==
    IF s /= <<>> /\ s[Len(s)] \in Whitespace THEN TrimRight(SubSeq(s, 1, Len(s) - 1)) ELSE s

\* String.prototype.trim
trim(s) == TrimRight(TrimLeft(s))

toUpperCase(s) == [i \in 1..Len(s) |-> IF s[i] \in DOMAIN UpperOf THEN UpperOf[s[i]] ELSE s[i]]

AllDigits(s) == \A i \in 1..Len(s) : s[i] \in Digits

\* index.ts:96-98  String(input || "").trim().toUpperCase()
normalizePbsItemCode(input) == toUpperCase(trim(input))

\* index.ts:95, 99-101  /^[0-9]{4,6}[A-Z]$/ on the normalized code
isValidPbsItemCode(input) ==
    LET code == normalizePbsItemCode(input)
        n == Len(code)
    IN  /\ n - 1 \in 4..6
        /\ AllDigits(SubSeq(code, 1, n - 1))
        /\ code[n] \in UpperLetters

\* index.ts:102-105  an omitted or empty code is valid; otherwise /^[0-9]+$/
\* on the trimmed code
isValidScheduleCode(input) ==
    \/ input = <<>>
    \/ (trim(input) /= <<>> /\ AllDigits(trim(input)))

\* index.ts:451  query.trim().replace(/[<>\"']/g, '').substring(0, 200)
sanitizeQuery(query) ==
    LET kept == SelectSeq(trim(query), LAMBDA c : c \notin {"<", ">", "\"", "'"})
    IN  SubSeq(kept, 1, IF Len(kept) < 200 THEN Len(kept) ELSE 200)

\* The `query` argument of search-drugs: empty, nothing but removed
\* characters, a name.
Queries == {<<>>, <<" ", "<", ">">>, <<"p", "x">>}

\* The `pbs_item_code` argument: a code in lower case with blanks around, a
\* code that is too short, no code at all.
ItemCodes == {<<" ", "1", "2", "2", "1", "0", "p", " ">>, <<"1", "2", "P">>, <<"!", "!">>}

\* The `schedule_code` argument: omitted (or empty), a number, not a number.
ScheduleCodes == {<<>>, <<"4", "2">>, <<"x">>}

\* What a request to an upstream API (openFDA through superagent, the PBS
\* API through pbsGet / pbsGetCached) comes to: a body with records, a body
\* with records that lack the fields the handler reads, a body with an
\* empty record list, a body without the list, or a rejected promise (the
\* network failed, or the status was not 2xx).
ApiOutcomes == {"rows", "malformed_rows", "empty", "no_field", "unreachable"}

\* A handler returns a result ...
Returned(text, isError, raised) ==
    [text |-> text, isError |-> isError, raised |-> raised, threw |-> FALSE]

\* ... or lets an exception escape.
Thrown(text) == [text |-> text, isError |-> FALSE, raised |-> TRUE, threw |-> TRUE]

\* utils.ts:19-32  searchDrugs: the number of records returned, or -1 when
\* the awaited request rejects (the function has no catch).
searchDrugs(http) ==
    CASE http = "unreachable" -> -1
      [] http \in {"rows", "malformed_rows"} -> 1
      [] OTHER -> 0           \* `res.body.results || []`

\* utils.ts:34-48  getDrugByNDC: the record found, or null; a rejected
\* request is caught and answered with null.
getDrugByNDC(http) ==
    CASE http = "rows" -> "record"
      [] http = "malformed_rows" -> "record_without_openfda"
      [] OTHER -> "null"      \* `res.body.results?.[0] || null`, `catch { return null }`

\* search-drugs without its rate check: every call with a usable query is
\* admitted.
search_drugs_NoLimit(query, http, clock, lastCall) ==
    IF query = <<>>
    THEN [result |-> Returned("Error: Query parameter is required", TRUE, FALSE),
          lastCall |-> lastCall, sent |-> FALSE]
    ELSE IF sanitizeQuery(query) = <<>>
    THEN [result |-> Returned("Error: Query contains no valid characters", TRUE, FALSE),
          lastCall |-> lastCall, sent |-> FALSE]
    ELSE [result |->
            CASE searchDrugs(http) = -1 -> Returned("Error searching drugs", TRUE, TRUE)
              [] searchDrugs(http) = 0 -> Returned("No drugs found matching", FALSE, FALSE)
              [] http = "malformed_rows" -> Returned("Error searching drugs", TRUE, TRUE)
              [] OTHER -> Returned("Drug Search Results", FALSE, FALSE),
          lastCall |-> clock, sent |-> TRUE]

\* search-drugs with the timestamp written before the rate check: a refused
\* call moves the window.
search_drugs_StampsRejected(query, http, clock, lastCall) ==
    IF query = <<>>
    THEN [result |-> Returned("Error: Query parameter is required", TRUE, FALSE),
          lastCall |-> lastCall, sent |-> FALSE]
    ELSE IF sanitizeQuery(query) = <<>>
    THEN [result |-> Returned("Error: Query contains no valid characters", TRUE, FALSE),
          lastCall |-> lastCall, sent |-> FALSE]
    ELSE IF clock - lastCall < RateLimitMs
    THEN [result |-> Returned("Error: Rate limit exceeded", TRUE, FALSE),
          lastCall |-> clock, sent |-> FALSE]
    ELSE [result |->
            CASE searchDrugs(http) = -1 -> Returned("Error searching drugs", TRUE, TRUE)
              [] searchDrugs(http) = 0 -> Returned("No drugs found matching", FALSE, FALSE)
              [] http = "malformed_rows" -> Returned("Error searching drugs", TRUE, TRUE)
              [] OTHER -> Returned("Drug Search Results", FALSE, FALSE),
          lastCall |-> clock, sent |-> TRUE]

\* index.ts:421-522  search-drugs; lastCall is the value it leaves in
\* global.__lastDrugSearchCall, sent tells whether it called searchDrugs
\* (index.ts:470)
search_drugs(query, http, clock, lastCall) ==
    IF query = <<>>
    THEN [result |-> Returned("Error: Query parameter is required", TRUE, FALSE),
          lastCall |-> lastCall, sent |-> FALSE]
    ELSE IF sanitizeQuery(query) = <<>>
    THEN [result |-> Returned("Error: Query contains no valid characters", TRUE, FALSE),
          lastCall |-> lastCall, sent |-> FALSE]
    ELSE IF clock - lastCall < RateLimitMs
    THEN [result |-> Returned("Error: Rate limit exceeded", TRUE, FALSE),
          lastCall |-> lastCall, sent |-> FALSE]
    ELSE [result |->
            CASE searchDrugs(http) = -1 -> Returned("Error searching drugs", TRUE, TRUE)
              [] searchDrugs(http) = 0 -> Returned("No drugs found matching", FALSE, FALSE)
              \* drug.openfda.brand_name of a record without openfda: TypeError
              [] http = "malformed_rows" -> Returned("Error searching drugs", TRUE, TRUE)
              [] OTHER -> Returned("Drug Search Results", FALSE, FALSE),
          lastCall |-> clock, sent |-> TRUE]

\* index.ts:549-579  pbs-list-schedules: no try block around `await pbsGet`
pbs_list_schedules(api) ==
    IF api = "unreachable"
    THEN Thrown("pbsGet rejected")
    ELSE Returned("PBS schedules (showing n of m)", FALSE, FALSE)

\* index.ts:1006-1058  pbs-search
pbs_search(api) ==
    CASE api = "unreachable" -> Returned("Error calling PBS API", TRUE, TRUE)
      [] api \in {"empty", "no_field"} -> Returned("No results from /endpoint", FALSE, FALSE)
      [] OTHER -> Returned("PBS search results", FALSE, FALSE)

\* index.ts:622-682  pbs-get-restrictions-for-item; items, rels and restr are
\* the outcomes of its three kinds of request
pbs_get_restrictions_for_item(pbs_item_code, schedule_code, items, rels, restr) ==
    IF ~isValidPbsItemCode(pbs_item_code)
    THEN Returned("Invalid PBS item code", FALSE, FALSE)
    ELSE IF ~isValidScheduleCode(schedule_code)
    THEN Returned("Invalid schedule_code", FALSE, FALSE)
    ELSE IF items = "unreachable"
    THEN Thrown("pbsGetCached rejected")
    ELSE IF items \in {"empty", "no_field"}
    THEN Returned("No PBS item found for code", FALSE, FALSE)
    ELSE IF rels = "unreachable"
    THEN Thrown("pbsGetCached rejected")
    ELSE IF rels \in {"empty", "no_field"}
    THEN Returned("No restrictions found for", FALSE, FALSE)
    \* index.ts:663-677  try { ... } catch { /* ignore */ }
    ELSE IF restr = "rows"
    THEN Returned("Restriction text sections", FALSE, FALSE)
    ELSE Returned("No restriction text sections found for", FALSE, restr = "unreachable")

\* index.ts:1190-1267  get-drug-details
get_drug_details(http) ==
    CASE getDrugByNDC(http) = "null" -> Returned("No drug found with NDC", FALSE, FALSE)
      \* drug.openfda.brand_name of a record without openfda: TypeError
      [] getDrugByNDC(http) = "record_without_openfda" ->
            Returned("Error fetching drug details", TRUE, TRUE)
      [] OTHER -> Returned("Drug Details for NDC", FALSE, FALSE)

\* utils.ts:122-168  searchRxNormDrugs: the number of concepts found; a
\* rejected request is caught and answered with [].
searchRxNormDrugs(http) == IF http = "rows" THEN 1 ELSE 0

\* utils.ts:329-397  searchPubMedArticles: the number of articles found; a
\* rejected request is caught and answered with [].
searchPubMedArticles(http) == IF http = "rows" THEN 1 ELSE 0

\* utils.ts:51-120  getHealthIndicators: the number of data points found.
\* The lookups of the indicator code ignore a rejected request (72-73,
\* 87-89), no code gives [], and a rejected data request is caught and
\* answered with [].  One outcome stands for every request of the call.
getHealthIndicators(http) == IF http = "rows" THEN 1 ELSE 0

\* index.ts:1453-1511  search-drug-nomenclature
search_drug_nomenclature(http) ==
    IF searchRxNormDrugs(http) = 0
    THEN Returned("No drugs found in RxNorm database for", FALSE, FALSE)
    ELSE Returned("RxNorm Drug Search", FALSE, FALSE)

\* index.ts:1385-1451  search-medical-literature
search_medical_literature(http) ==
    IF searchPubMedArticles(http) = 0
    THEN Returned("No medical articles found for", FALSE, FALSE)
    ELSE Returned("Medical Literature Search", FALSE, FALSE)

\* index.ts:1269-1383  get-health-statistics
get_health_statistics(http) ==
    IF getHealthIndicators(http) = 0
    THEN Returned("No health indicators found for", FALSE, FALSE)
    ELSE Returned("Health Statistics", FALSE, FALSE)

\* A request the handler returns or throws before making.
NotRequested == "not_requested"

\* The requests of a call of pbs-get-restrictions-for-item that have an
\* outcome are the ones the handler makes (index.ts:634-653).
RequestsMade(c) ==
    /\ c.items = NotRequested
          <=> ~(isValidPbsItemCode(c.pbs_item_code) /\ isValidScheduleCode(c.schedule_code))
    /\ c.rels = NotRequested <=> c.items \notin {"rows", "malformed_rows"}
    /\ c.restr = NotRequested <=> c.rels \notin {"rows", "malformed_rows"}

\* A name under which registerTool was never called.
UnregisteredTool == "unregistered-tool"

\* index.ts:2  McpServer (SDK) rejects a call of a tool that is not
\* registered, or whose arguments the input schema refuses, before any
\* callback runs: as a JSON-RPC error (InvalidParams) or as a result with
\* isError: true, depending on the version of the SDK.
SdkRejections == {"jsonrpc_error", "error_result"}

\* The tools/call messages of a run: a registered tool, arguments its input
\* schema accepts, and what the upstream requests of the call come to; or a
\* call the SDK rejects, and how.
ToolCalls ==
    [tool : {"search-drugs"}, query : Queries, http : ApiOutcomes]
    \cup [tool : {"pbs-list-schedules", "pbs-search"}, api : ApiOutcomes]
    \cup {c \in [tool : {"pbs-get-restrictions-for-item"}, pbs_item_code : ItemCodes,
                  schedule_code : ScheduleCodes, items : ApiOutcomes \cup {NotRequested},
                  rels : ApiOutcomes \cup {NotRequested},
                  restr : ApiOutcomes \cup {NotRequested}] : RequestsMade(c)}
    \cup [tool : {"get-drug-details"}, http : ApiOutcomes]
    \cup [tool : {"search-drug-nomenclature", "search-medical-literature",
                  "get-health-statistics"}, http : {"rows", "empty", "unreachable"}]
    \cup [tool : {UnregisteredTool}, sdk : SdkRejections]
    \cup [tool : {"search-drugs"}, invalid : {"query is not a string"}, sdk : SdkRejections]

\* The callback registered under c.tool, applied to the arguments of c.
RunHandler(c) ==
    CASE c.tool = "search-drugs" -> search_drugs(c.query, c.http, now, lastDrugSearchCall).result
      [] c.tool = "pbs-list-schedules" -> pbs_list_schedules(c.api)
      [] c.tool = "pbs-search" -> pbs_search(c.api)
      [] c.tool = "pbs-get-restrictions-for-item" ->
            pbs_get_restrictions_for_item(c.pbs_item_code, c.schedule_code,
                                          c.items, c.rels, c.restr)
      [] c.tool = "get-drug-details" -> get_drug_details(c.http)
      [] c.tool = "search-drug-nomenclature" -> search_drug_nomenclature(c.http)
      [] c.tool = "search-medical-literature" -> search_medical_literature(c.http)
      [] c.tool = "get-health-statistics" -> get_health_statistics(c.http)

\* A request the handler of c made was rejected: the network failed, or the
\* status was not 2xx.  search-drugs makes its request only past its input
\* checks and its rate limit (index.ts:444-470).
UpstreamFailed(c) ==
    /\ \E f \in {"http", "api", "items", "rels", "restr"} \cap DOMAIN c : c[f] = "unreachable"
    /\ c.tool = "search-drugs" => RunHandler(c).text = "Error searching drugs"

\* The handler of c made at least one upstream request.
RequestSent(c) ==
    CASE c.tool = "search-drugs" -> search_drugs(c.query, c.http, now, lastDrugSearchCall).sent
      [] c.tool = "pbs-get-restrictions-for-item" -> c.items /= NotRequested
      [] OTHER -> TRUE

\* index.ts:2  McpServer (SDK) answers tools/call with the result the
\* callback returns; an exception that escapes the callback becomes a result
\* that carries the exception's message and isError: true.  Either way the
\* answer is a JSON-RPC result, not a JSON-RPC error.
CallToolResult(c) ==
    IF "sdk" \in DOMAIN c
    THEN [tool |-> c.tool,
          text |-> IF c.tool = UnregisteredTool THEN "Tool not found" ELSE "Invalid arguments",
          raised |-> FALSE, threw |-> FALSE,
          isError |-> c.sdk = "error_result", protocolError |-> c.sdk = "jsonrpc_error",
          upstreamFailed |-> FALSE, requested |-> FALSE]
    ELSE LET h == RunHandler(c)
         IN  [tool |-> c.tool, text |-> h.text, raised |-> h.raised, threw |-> h.threw,
              isError |-> h.isError \/ h.threw, protocolError |-> FALSE,
              upstreamFailed |-> UpstreamFailed(c), requested |-> RequestSent(c)]

\* A tool layer that closes the session of a call that ends in an error.
callTool_ClosesOnError ==
    /\ exit = "running"
    /\ last.kind = "request"
    /\ last.req.method = "POST"
    /\ last.req.body = "other"
    /\ last.handedTo \in DOMAIN trs
    /\ last.resp = TransportResponse(TRUE)
    /\ \E c \in ToolCalls :
         /\ call' = CallToolResult(c) @@ [sid |-> last.req.sid]
         /\ lastDrugSearchCall' =
                IF c.tool = "search-drugs" /\ "sdk" \notin DOMAIN c
                THEN search_drugs(c.query, c.http, now, lastDrugSearchCall).lastCall
                ELSE lastDrugSearchCall
         /\ IF CallToolResult(c).isError \/ CallToolResult(c).protocolError
            THEN close(last.handedTo)
            ELSE UNCHANGED <<transports, servers, trs>>
    /\ last' = [last EXCEPT !.kind = "tool_result"]
    /\ UNCHANGED <<env, proc, now, gateway>>

\* The transport of a live session serves the POST handed to it at
\* index.ts:1748: a tools/call message.  `call` keeps the answer and the
\* session it was given in.
callTool ==
    /\ exit = "running"
    /\ last.kind = "request"
    /\ last.req.method = "POST"
    /\ last.req.body = "other"
    /\ last.handedTo \in DOMAIN trs
    /\ last.resp = TransportResponse(TRUE)
    /\ \E c \in ToolCalls :
         /\ call' = CallToolResult(c) @@ [sid |-> last.req.sid]
         /\ lastDrugSearchCall' =
                IF c.tool = "search-drugs" /\ "sdk" \notin DOMAIN c
                THEN search_drugs(c.query, c.http, now, lastDrugSearchCall).lastCall
                ELSE lastDrugSearchCall
    /\ last' = [last EXCEPT !.kind = "tool_result"]
    /\ UNCHANGED <<env, transports, servers, trs, proc, now, gateway>>

\* Time passes.
Tick ==
    /\ last = Idle
    /\ now + TickMs <= MaxClock
    /\ now' = now + TickMs
    /\ UNCHANGED <<env, transports, servers, trs, last, proc, call, lastDrugSearchCall,
                   gateway>>

\* POST requests with no Origin header, an acceptable Accept header and no
\* declared version, bearing a session id of the run or none.
ToolRequests ==
    {r \in Requests :
        /\ r.method = "POST"
        /\ r.origin = NoHeader
        /\ r.version = NoHeader
        /\ r.sid \in UUIDs \cup {NoHeader}
        /\ r.accept = {"application/json", "text/event-stream"}}

ToolRequest == last = Idle /\ \E r \in ToolRequests : McpRequest(r)

NextTools ==
    \/ ToolRequest
    \/ \E t \in 1..MaxSessions : ConnectDone(t)
    \/ callTool
    \/ Tick
    \/ Return

SpecTools == Init /\ [][NextTools]_vars

----------------------------------------------------------------------------
(* The PBS gateway: pbsGet / pbsGetCached, imported from ./utils.js         *)
(* (index.ts:17-18)                                                         *)

(* The tool handlers reach the PBS API only through these two functions.    *)
(* Their module is not among the sources; the gateway is modelled from its  *)
(* contract (spec.md, 4.1 Upstream Gateway) and from the two settings the   *)
(* README documents.  A fetch runs to its first await in one step: the      *)
(* cache lookup, the check-and-set of the throttle timestamp and the start  *)
(* of the HTTP call are not interleaved with other callers.                 *)

\* README (part_001:389)  PBS_MIN_INTERVAL_MS, default 20000
PBS_MIN_INTERVAL_MS == 20000

\* README (part_001:390)  PBS_CACHE_TTL_MS, default 300000
PBS_CACHE_TTL_MS == 300000

\* The fetches of a run: an endpoint and its parameters, as the list of
\* (name, value) pairs in the order the caller wrote them.
GatewayCalls ==
    {[endpoint |-> "schedules", params |-> <<<<"limit", "1">>, <<"page", "2">>>>],
     [endpoint |-> "schedules", params |-> <<<<"page", "2">>, <<"limit", "1">>>>],
     [endpoint |-> "items", params |-> <<<<"limit", "1">>>>]}

\* The cache key: the endpoint and the sorted parameter pairs.  Sorting makes
\* the key depend on the pairs and not on their order; the set of the pairs
\* is that canonical form.
cacheKey(endpoint, params) == <<endpoint, {params[i] : i \in DOMAIN params}>>

\* An entry is servable only while `now - insertion_timestamp < TTL`.
cacheValid_NeverExpires(key) == key \in DOMAIN cache

cacheValid(key) == key \in DOMAIN cache /\ now - cache[key].at < PBS_CACHE_TTL_MS

\* The minimum interval has elapsed since the last upstream send (or
\* nothing was sent yet: lastSentAt is 0).
intervalElapsed == lastSentAt = 0 \/ now - lastSentAt >= PBS_MIN_INTERVAL_MS

\* The upstream request of fetch i is sent: the throttle timestamp is set in
\* the same step as the check that allowed the send.
send(i, f) ==
    /\ lastSentAt' = now
    /\ sends' = Append(sends, [key |-> f.key, at |-> now, by |-> i])

\* A caller calls fetch(endpoint, params).  A valid entry is returned at
\* once; an expired one is evicted.  Otherwise the caller sends if the
\* interval has elapsed, and is suspended if not.  The mutant takes the
\* throttle before it looks into the cache.
fetch_ThrottlesHits(g) ==
    LET key == cacheKey(g.endpoint, g.params)
        i == Len(fetches) + 1
        f == [key |-> key, params |-> g.params, pc |-> "sent", nsent |-> 1, payload |-> 0]
    IN  /\ Len(fetches) < MaxFetches
        /\ IF ~intervalElapsed
           THEN /\ fetches' = Append(fetches, [f EXCEPT !.pc = "waiting", !.nsent = 0])
                /\ UNCHANGED <<cache, lastSentAt, sends>>
           ELSE IF cacheValid(key)
           THEN /\ fetches' = Append(fetches, [f EXCEPT !.pc = "hit", !.nsent = 0,
                                                        !.payload = cache[key].payload])
                /\ UNCHANGED <<cache, lastSentAt, sends>>
           ELSE /\ cache' = [k \in DOMAIN cache \ {key} |-> cache[k]]
                /\ fetches' = Append(fetches, f)
                /\ send(i, f)
        /\ UNCHANGED <<env, transports, servers, trs, last, proc, call, now, lastDrugSearchCall>>

fetch(g) ==
    LET key == cacheKey(g.endpoint, g.params)
        i == Len(fetches) + 1
        f == [key |-> key, params |-> g.params, pc |-> "sent", nsent |-> 1, payload |-> 0]
    IN  /\ Len(fetches) < MaxFetches
        /\ IF cacheValid(key)
           THEN /\ fetches' = Append(fetches, [f EXCEPT !.pc = "hit", !.nsent = 0,
                                                        !.payload = cache[key].payload])
                /\ UNCHANGED <<cache, lastSentAt, sends>>
           ELSE /\ cache' = [k \in DOMAIN cache \ {key} |-> cache[k]]
                /\ IF intervalElapsed
                   THEN fetches' = Append(fetches, f) /\ send(i, f)
                   ELSE /\ fetches' = Append(fetches, [f EXCEPT !.pc = "waiting", !.nsent = 0])
                        /\ UNCHANGED <<lastSentAt, sends>>
        /\ UNCHANGED <<env, transports, servers, trs, last, proc, call, now, lastDrugSearchCall>>

\* A throttle that sleeps for the time computed from the timestamp it read
\* on entry and then sends without looking at the timestamp again.
throttleWake_NoRecheck(i) ==
    /\ i \in DOMAIN fetches
    /\ fetches[i].pc = "waiting"
    /\ \E j \in DOMAIN sends : now - sends[j].at >= PBS_MIN_INTERVAL_MS
    /\ fetches' = [fetches EXCEPT ![i].pc = "sent", ![i].nsent = @ + 1]
    /\ send(i, fetches[i])
    /\ UNCHANGED <<env, transports, servers, trs, last, proc, call, now, lastDrugSearchCall, cache>>

\* A suspended caller resumes: it sends only if the interval has elapsed
\* since the last send, whoever made it (one atomic check-and-set).
throttleWake(i) ==
    /\ i \in DOMAIN fetches
    /\ fetches[i].pc = "waiting"
    /\ intervalElapsed
    /\ fetches' = [fetches EXCEPT ![i].pc = "sent", ![i].nsent = @ + 1]
    /\ send(i, fetches[i])
    /\ UNCHANGED <<env, transports, servers, trs, last, proc, call, now, lastDrugSearchCall, cache>>

\* The index of the upstream send made for fetch i.
sendOf(i) == CHOOSE j \in DOMAIN sends : sends[j].by = i

\* A gateway that remembers the failure under the key.
upstreamResponds_CachesFailure(i, ok) ==
    /\ i \in DOMAIN fetches
    /\ fetches[i].pc = "sent"
    /\ cache' = [k \in DOMAIN cache \cup {fetches[i].key} |->
                    IF k = fetches[i].key THEN [payload |-> sendOf(i), at |-> now]
                    ELSE cache[k]]
    /\ fetches' = [fetches EXCEPT ![i].pc = IF ok THEN "returned" ELSE "failed",
                                  ![i].payload = IF ok THEN sendOf(i) ELSE 0]
    /\ UNCHANGED <<env, transports, servers, trs, last, proc, call, now, lastDrugSearchCall,
                   lastSentAt, sends>>

\* The HTTP call of fetch i completes.  On success the payload (that of the
\* sendOf(i)-th upstream response) is stored with a fresh timestamp and
\* returned; on failure the error is propagated and nothing is stored.
upstreamResponds(i, ok) ==
    /\ i \in DOMAIN fetches
    /\ fetches[i].pc = "sent"
    /\ IF ok
       THEN cache' = [k \in DOMAIN cache \cup {fetches[i].key} |->
                        IF k = fetches[i].key THEN [payload |-> sendOf(i), at |-> now]
                        ELSE cache[k]]
       ELSE cache' = cache
    /\ fetches' = [fetches EXCEPT ![i].pc = IF ok THEN "returned" ELSE "failed",
                                  ![i].payload = IF ok THEN sendOf(i) ELSE 0]
    /\ UNCHANGED <<env, transports, servers, trs, last, proc, call, now, lastDrugSearchCall,
                   lastSentAt, sends>>

\* The instants of a run.
Instants ==
    {2 * TickMs + a * (PBS_MIN_INTERVAL_MS \div 2) + b * PBS_CACHE_TTL_MS :
        a \in 0..MaxShortWaits, b \in 0..MaxLongWaits}

\* Time passes.
GatewayWait ==
    \E t \in Instants :
        /\ t > now
        /\ now' = t
        /\ UNCHANGED <<env, transports, servers, trs, last, proc, call, lastDrugSearchCall,
                       gateway>>

Fetch == \E g \in GatewayCalls : fetch(g)

ThrottleWake == \E i \in 1..MaxFetches : throttleWake(i)

UpstreamResponds == \E i \in 1..MaxFetches : \E ok \in BOOLEAN : upstreamResponds(i, ok)

NextGateway ==
    \/ Fetch
    \/ ThrottleWake
    \/ UpstreamResponds
    \/ GatewayWait

\* The gateway reads neither NODE_ENV nor ENABLE_DNS_REBINDING_PROTECTION.
InitGateway == Init /\ env = [production |-> FALSE, dnsFlag |-> FALSE]

SpecGateway == InitGateway /\ [][NextGateway]_vars

----------------------------------------------------------------------------
(* The parameters the PBS tools hand to the gateway, index.ts:123-1188      *)

(* A parameter map (Record<string, string>) is a function from names to     *)
(* values; a value is a sequence of characters.  An optional argument is    *)
(* the sequence of the values given for it: empty when it is undefined.     *)

Undefined == <<>>

Some(v) == <<v>>

\* The object {}
EmptyParams == [k \in {} |-> <<>>]

\* index.ts:125  generic query controls supported by PBS
common == {"limit", "page", "sort", "sort_fields", "fields", "filter"}

\* index.ts:126-383  the allow-list of each endpoint
perEndpoint ==
    ("schedules" :>
        {"schedule_code", "revision_number", "effective_date",
         "effective_month", "effective_year",
         "get_latest_schedule_only"})
    @@
    ("items" :>
        {"schedule_code", "li_item_id", "drug_name", "li_drug_name",
         "li_form", "schedule_form", "brand_name", "program_code",
         "pbs_code", "benefit_type_code", "pack_size",
         "pricing_quantity"})
    @@
    ("item-overview" :>
        {"schedule_code", "li_item_id", "drug_name", "li_drug_name",
         "li_form", "schedule_form", "brand_name", "program_code",
         "pbs_code", "benefit_type_code", "caution_indicator",
         "note_indicator", "manner_of_administration",
         "moa_preferred_term", "maximum_prescribable_pack",
         "maximum_quantity_units", "number_of_repeats",
         "organisation_id", "manufacturer_code", "pack_size",
         "pricing_quantity", "pack_not_to_be_broken_ind",
         "claimed_price", "determined_price", "determined_qty",
         "safety_net_resupply_rule_days",
         "safety_net_resup_rule_cnt_ind", "extemporaneous_indicator",
         "extemporaneous_standard", "doctors_bag_group_id",
         "section100_only_indicator", "doctors_bag_only_indicator",
         "brand_substitution_group_id",
         "brand_substitution_group_code",
         "continued_dispensing_emergency",
         "continued_dispensing_flag", "supply_only_indicator",
         "supply_only_date", "non_effective_date",
         "weighted_avg_disclosed_price", "originator_brand_indicator",
         "paper_med_chart_eligible_ind",
         "elect_med_chart_eligible_ind",
         "hsptl_med_chart_eligible_ind", "paper_med_chart_duration",
         "elect_med_chart_duration", "hsptl_chart_acute_duration",
         "hsptl_chart_sub_acute_duration",
         "hsptl_chart_chronic_duration", "pack_content",
         "vial_content", "infusible_indicator", "unit_of_measure",
         "maximum_amount", "formulary", "water_added_ind",
         "section_19a_expiry_date", "container_fee_type",
         "policy_applied_bio_sim_up_flag",
         "policy_applied_imdq60_flag",
         "policy_applied_imdq60_base_flag",
         "policy_applied_indig_phar_flag",
         "therapeutic_exemption_indicator",
         "premium_exemption_group_id", "doctors_bag_group_title",
         "therapeutic_group_id", "therapeutic_group_title",
         "advanced_notice_date", "supply_only_end_date",
         "first_listed_date", "legal_unar_ind", "legal_car_ind",
         "proportional_price", "get_latest_schedule_only"})
    @@
    ("organisations" :>
        {"organisation_id", "schedule_code", "name", "abn",
         "street_address", "city", "state", "postcode",
         "telephone_number", "facsimile_number",
         "get_latest_schedule_only"})
    @@
    ("fees" :>
        {"program_code", "schedule_code",
         "dispensing_fee_ready_prepared",
         "dispensing_fee_dangerous_drug", "dispensing_fee_extra",
         "dispensing_fee_extemporaneous",
         "safety_net_recording_fee_ep", "safety_net_recording_fee_rp",
         "dispensing_fee_water_added", "container_fee_injectable",
         "container_fee_other", "gnrl_copay_discount_general",
         "gnrl_copay_discount_hospital", "con_copay_discount_general",
         "con_copay_discount_hospital", "efc_diluent_fee",
         "efc_preparation_fee", "efc_distribution_fee",
         "acss_imdq60_payment", "acss_payment"})
    @@
    ("restrictions" :>
        {"res_code", "schedule_code", "treatment_phase",
         "authority_method", "treatment_of_code",
         "restriction_number", "li_html_text", "schedule_html_text",
         "note_indicator", "caution_indicator",
         "assessment_type_code", "criteria_relationship",
         "variation_rule_applied", "first_listing_date",
         "written_authority_required"})
    @@
    ("item-restriction-relationships" :>
        {"res_code", "pbs_code", "benefit_type_code",
         "restriction_indicator", "schedule_code", "res_position"})
    @@
    ("restriction-prescribing-text-relationships" :>
        {"schedule_code", "res_code", "prescribing_text_id",
         "pt_position"})
    @@
    ("prescribing-texts" :>
        {"schedule_code", "prescribing_txt_id", "prescribing_type",
         "prescribing_txt", "prscrbg_txt_html",
         "complex_authority_rqrd_ind", "assessment_type_code",
         "apply_to_increase_mq_flag", "apply_to_increase_nr_flag"})
    @@
    ("prescribers" :>
        {"pbs_code", "prescriber_code", "schedule_code",
         "prescriber_type"})
    @@
    ("item-atc-relationships" :>
        {"atc_code", "schedule_code", "pbs_code", "atc_priority_pct"})
    @@
    ("atc-codes" :>
        {"atc_code", "atc_description", "atc_level",
         "atc_parent_code", "schedule_code"})
    @@
    ("amt-items" :>
        {"pbs_concept_id", "concept_type_code", "schedule_code",
         "amt_code", "li_item_id", "preferred_term", "exempt_ind",
         "non_amt_code", "pbs_preferred_term"})
    @@
    ("copayments" :>
        {"schedule_code", "general", "concessional",
         "safety_net_general", "safety_net_concessional",
         "safety_net_card_issue", "increased_discount_limit",
         "safety_net_ctg_contribution", "get_latest_schedule_only"})
    @@
    ("item-pricing-events" :>
        {"schedule_code", "li_item_id", "percentage_applied",
         "event_type_code"})
    @@
    ("programs" :>
        {"program_code", "schedule_code", "program_title"})
    @@
    ("program-dispensing-rules" :>
        {"program_code", "dispensing_rule_mnem", "default_indicator",
         "schedule_code"})
    @@
    ("dispensing-rules" :>
        {"schedule_code", "dispensing_rule_mnem",
         "dispensing_rule_reference", "dispensing_rule_title",
         "community_pharmacy_indicator"})
    @@
    ("summary-of-changes" :>
        {"schedule_code", "source_schedule_code",
         "target_effective_date", "source_effective_date",
         "target_publication_status", "source_publication_status",
         "target_revision_number", "source_revision_number",
         "changed_table", "change_type", "sql_statement",
         "change_detail", "previous_detail", "table_keys",
         "deleted_ind", "new_ind", "modified_ind", "changed_endpoint",
         "get_latest_schedule_only"})

\* index.ts:384  perEndpoint[endpoint] || [] spread into an array.
\* perEndpoint is a plain object: a listed endpoint gives its list, a name
\* inherited from Object.prototype gives the inherited function or object,
\* which is truthy and not iterable, so that spreading it throws a
\* TypeError; any other name gives undefined, hence [].
allowListOf(endpoint) ==
    IF endpoint \in DOMAIN perEndpoint THEN [threw |-> FALSE, keys |-> perEndpoint[endpoint]]
    ELSE IF endpoint \in ProtoKeys THEN [threw |-> TRUE, keys |-> {}]
    ELSE [threw |-> FALSE, keys |-> {}]

\* index.ts:123-391  pickAllowedParams: the entries of input whose key is
\* allowed, or an exception
pickAllowedParams(endpoint, input) ==
    IF input = Undefined THEN [threw |-> FALSE, out |-> EmptyParams]
    ELSE IF allowListOf(endpoint).threw THEN [threw |-> TRUE, out |-> EmptyParams]
    ELSE LET allowed == allowListOf(endpoint).keys \cup common
         IN  [threw |-> FALSE,
              out |-> [k \in DOMAIN input[1] \cap allowed |-> input[1][k]]]

\* A call of pbsGet / pbsGetCached: the endpoint and the parameter map.
PbsRequest(endpoint, params) == [endpoint |-> endpoint, params |-> params]

\* What a handler did: the result it returned (or the exception it let
\* escape) and the gateway calls it made.
Handled_(result, requests) == [result |-> result, requests |-> requests]

\* index.ts:549-579  pbs-list-schedules.  `limit` is String(limit).
pbs_list_schedules_call(limit, latest_only, api) ==
    LET picked == pickAllowedParams("schedules", Some("limit" :> limit)).out
        params == IF latest_only
                  THEN ("get_latest_schedule_only" :> <<"t", "r", "u", "e">>) @@ picked
                  ELSE picked
    IN  Handled_(pbs_list_schedules(api), <<PbsRequest("schedules", params)>>)

\* index.ts:685-712  pbs-get-prescribers-for-item: the normalized item code
\* and the schedule code as given
pbs_get_prescribers_for_item(pbs_item_code, schedule_code, api) ==
    LET code == normalizePbsItemCode(pbs_item_code)
        params == pickAllowedParams("prescribers",
                      Some(("pbs_code" :> code)
                           @@ (IF schedule_code /= <<>>
                               THEN "schedule_code" :> schedule_code ELSE EmptyParams)
                           @@ ("limit" :> <<"5", "0">>))).out
    IN  IF ~isValidPbsItemCode(code)
        THEN Handled_(Returned("Invalid PBS item code", FALSE, FALSE), <<>>)
        ELSE IF ~isValidScheduleCode(schedule_code)
        THEN Handled_(Returned("Invalid schedule_code", FALSE, FALSE), <<>>)
        ELSE Handled_(CASE api = "unreachable" -> Thrown("pbsGetCached rejected")
                        [] api \in {"empty", "no_field"} ->
                              Returned("No prescribers found for", FALSE, FALSE)
                        [] OTHER -> Returned("Prescriber types", FALSE, FALSE),
                      <<PbsRequest("prescribers", params)>>)

\* index.ts:924-961  pbs-get-item: schedule_code is added to the filtered
\* map as given (index.ts:954)
pbs_get_item(pbs_item_code, schedule_code, limit, api) ==
    LET code == normalizePbsItemCode(pbs_item_code)
        picked == pickAllowedParams("items",
                      Some(("pbs_code" :> code) @@ ("limit" :> limit))).out
        params == IF schedule_code /= <<>>
                  THEN ("schedule_code" :> schedule_code) @@ picked
                  ELSE picked
    IN  IF ~isValidPbsItemCode(code)
        THEN Handled_(Returned("Invalid PBS item code", FALSE, FALSE), <<>>)
        ELSE IF ~isValidScheduleCode(schedule_code)
        THEN Handled_(Returned("Invalid schedule_code", FALSE, FALSE), <<>>)
        ELSE IF "pbs_code" \notin DOMAIN picked \/ picked["pbs_code"] = <<>>
        THEN Handled_(Returned("pbs_item_code is required.", FALSE, FALSE), <<>>)
        ELSE Handled_(CASE api = "unreachable" -> Thrown("pbsGet rejected")
                        [] api \in {"empty", "no_field"} ->
                              Returned("No PBS items found for code", FALSE, FALSE)
                        [] OTHER -> Returned("PBS item summary", FALSE, FALSE),
                      <<PbsRequest("items", params)>>)

\* index.ts:1006-1057  pbs-search: the endpoint and the parameters of the
\* caller, filtered; an exception of the filter is caught with the others
pbs_search_call(endpoint, params, api) ==
    LET safeParams == pickAllowedParams(endpoint, params)
    IN  IF safeParams.threw
        THEN Handled_(Returned("Error calling PBS API", TRUE, TRUE), <<>>)
        ELSE Handled_(pbs_search(api), <<PbsRequest(endpoint, safeParams.out)>>)

\* What a request of these tools comes to.
PbsOutcomes == {"rows", "empty", "unreachable"}

\* The `schedule_code` argument of the item tools: the codes above, and a
\* number with a blank before it.
ScheduleCodeArgs == ScheduleCodes \cup {<<" ", "4", "2">>}

\* The `endpoint` argument of pbs-search (any string): two listed
\* endpoints, a name that is not listed, a name every object inherits.
SearchEndpoints == {"schedules", "items", "no-such-endpoint"} \cup ProtoKeys

\* The values of the parameters a caller of pbs-search sends: a parameter
\* of the items endpoint, one of most endpoints, a common control, and a
\* parameter no endpoint lists.
ParamValues ==
    ("pbs_code" :> {<<"1", "2", "2", "1", "0", "P">>, <<"!", "!">>})
    @@ ("schedule_code" :> {<<"x">>})
    @@ ("limit" :> {<<"5">>})
    @@ ("callback" :> {<<"x">>})

\* The `params` argument of pbs-search.
ParamMaps ==
    UNION {{m \in [ks -> UNION {ParamValues[k] : k \in DOMAIN ParamValues}] :
                \A k \in ks : m[k] \in ParamValues[k]} :
           ks \in SUBSET DOMAIN ParamValues}

\* The tools/call messages of a run for these tools, with the outcome of
\* the request the handler makes, if it makes one.
PbsToolCalls ==
    [tool : {"pbs-list-schedules"}, limit : {<<"5">>}, latest_only : BOOLEAN,
     api : PbsOutcomes]
    \cup {c \in [tool : {"pbs-get-item", "pbs-get-prescribers-for-item"},
                  pbs_item_code : ItemCodes, schedule_code : ScheduleCodeArgs,
                  limit : {<<"5">>}, api : PbsOutcomes \cup {NotRequested}] :
             c.api = NotRequested
                <=> ~(isValidPbsItemCode(c.pbs_item_code)
                      /\ isValidScheduleCode(c.schedule_code))}
    \cup {c \in [tool : {"pbs-search"}, endpoint : SearchEndpoints,
                  params : {Undefined} \cup {Some(m) : m \in ParamMaps},
                  api : PbsOutcomes \cup {NotRequested}] :
             c.api = NotRequested <=> pickAllowedParams(c.endpoint, c.params).threw}

\* The callback registered under c.tool, applied to the arguments of c.
RunPbsHandler(c) ==
    CASE c.tool = "pbs-list-schedules" -> pbs_list_schedules_call(c.limit, c.latest_only, c.api)
      [] c.tool = "pbs-get-item" ->
            pbs_get_item(c.pbs_item_code, c.schedule_code, c.limit, c.api)
      [] c.tool = "pbs-get-prescribers-for-item" ->
            pbs_get_prescribers_for_item(c.pbs_item_code, c.schedule_code, c.api)
      [] c.tool = "pbs-search" -> pbs_search_call(c.endpoint, c.params, c.api)

\* The transport of a live session serves a tools/call message for one of
\* these tools (index.ts:1748); `call` keeps the session, the arguments
\* and the gateway calls of the handler with the answer of McpServer.
callPbsTool ==
    /\ exit = "running"
    /\ last.kind = "request"
    /\ last.req.method = "POST"
    /\ last.req.body = "other"
    /\ last.handedTo \in DOMAIN trs
    /\ last.resp = TransportResponse(TRUE)
    /\ \E c \in PbsToolCalls :
         LET h == RunPbsHandler(c)
         IN  call' = [tool |-> c.tool, text |-> h.result.text, raised |-> h.result.raised,
                      threw |-> h.result.threw,
                      isError |-> h.result.isError \/ h.result.threw,
                      protocolError |-> FALSE, upstreamFailed |-> c.api = "unreachable",
                      requested |-> h.requests /= <<>>,
                      sid |-> last.req.sid, args |-> c, requests |-> h.requests]
    /\ last' = [last EXCEPT !.kind = "tool_result"]
    /\ UNCHANGED <<env, transports, servers, trs, proc, now, lastDrugSearchCall, gateway>>

NextPbs ==
    \/ ToolRequest
    \/ \E t \in 1..MaxSessions : ConnectDone(t)
    \/ callPbsTool
    \/ Return

InitPbs == Init /\ env = [production |-> FALSE, dnsFlag |-> FALSE]

SpecPbs == InitPbs /\ [][NextPbs]_vars

----------------------------------------------------------------------------
(* The origin checks, index.ts:29-74 and 1617-1650 *)

\* Origin header: the values above, an empty value, and an origin that
\* setCorsHeaders allows and the DNS-rebinding check does not.
OriginValues == Origins \cup {"", "http://localhost:3200"}

\* Requests to /mcp with an acceptable Accept header and no declared
\* version, bearing a session id of the run or none, and any Origin.
OriginRequests ==
    [path : {"/mcp"}, method : {"POST"}, sid : UUIDs \cup {NoHeader}, version : {NoHeader},
     accept : {{"application/json", "text/event-stream"}}, origin : OriginValues,
     body : {"initialize", "other"}]
    \cup
    [path : {"/mcp"}, method : {"GET", "DELETE", "OPTIONS"}, sid : UUIDs \cup {NoHeader},
     version : {NoHeader}, accept : {{}}, origin : OriginValues, body : {"none"}]

OriginRequest == last = Idle /\ \E r \in OriginRequests : McpRequest(r)

NextOrigin ==
    \/ OriginRequest
    \/ \E t \in 1..MaxSessions : ConnectDone(t)
    \/ \E t \in 1..MaxSessions : TransportClose(t)
    \/ Return

SpecOrigin == Init /\ [][NextOrigin]_vars

----------------------------------------------------------------------------
(* The SSE variant of the server, part_000:1218-1262.  Its session table is *)
(* a Map from session id to transport; one McpServer serves every           *)
(* transport, so `servers` stays empty.                                     *)

\* The sessionId query parameter of a POST: absent (searchParams.get gives
\* null), empty, an inherited name of plain objects, an id of the run.
SseSessionIds == {NoHeader, ""} \cup ProtoKeys \cup UUIDs

SseRequests ==
    [path : {"/sse", "/messages", "/other"}, method : {"GET", "POST"}, sid : SseSessionIds,
     version : {NoHeader}, accept : {{}}, origin : {NoHeader}, body : {"none"}]

\* part_000:1246  transports.get(sessionId) of a Map: the value set under
\* the key, or undefined (0).
transportsGet(table, key) == IF key \in DOMAIN table THEN table[key] ELSE 0

\* An onclose that leaves the table as it is.
sseOnclose_KeepsEntry(t) == UNCHANGED transports

\* part_000:1233  transport.onclose = () => transports.delete(sessionId)
sseOnclose(t) == transports' = Delete(transports, trs[t].sessionId)

\* part_000:1229-1236  GET /sse: the SSEServerTransport draws its session id
\* in its constructor, is put in the table, and the handler suspends at
\* `await server.connect(transport)` with the stream open.
establishSseStream(r) ==
    /\ Len(trs) < MaxSessions
    /\ \E id \in randomUUID :
         /\ trs' = Append(trs, [sessionId |-> id, state |-> "connecting", closed |-> FALSE])
         /\ transports' = Put(transports, id, Len(trs) + 1)
    /\ last' = Observation("request", r, NoResponse, 0, FALSE, FALSE, TRUE, NoHeader)
    /\ UNCHANGED servers

\* part_000:1239-1254  POST /messages
receiveMessage(r) ==
    LET sessionId == r.sid
        transport == transportsGet(transports, sessionId)
    IN  IF ~Truthy(sessionId)
        THEN Answer(r, PlainResponse(400, "missing_sessionid_parameter"), FALSE, FALSE, NoHeader)
        ELSE IF transport = 0
        THEN Answer(r, PlainResponse(404, "sse_session_not_found"), FALSE, TRUE, NoHeader)
        ELSE IF transport \in DOMAIN trs
        THEN \* transport.handlePostMessage(req, res): the SDK transport
             \* accepts the message or answers with an error of its own
             /\ \E ok \in BOOLEAN :
                   last' = Observation("request", r, TransportResponse(ok), transport,
                                       TRUE, TRUE, FALSE, NoHeader)
             /\ UNCHANGED <<transports, servers, trs>>
        \* no transport: the call throws and the catch answers
        \* (part_000:1258-1261)
        ELSE Answer(r, PlainResponse(500, "internal_server_error"), FALSE, TRUE, NoHeader)

\* part_000:1224-1262  the request handler of the SSE variant
sseHandler(r) ==
    /\ last = Idle
    /\ IF r.method = "GET" /\ r.path = "/sse"
       THEN establishSseStream(r)
       ELSE IF r.method = "POST" /\ r.path = "/messages"
       THEN receiveMessage(r)
       ELSE Answer(r, PlainResponse(404, "not_found"), FALSE, FALSE, NoHeader)
    /\ UNCHANGED <<env, proc, tools>>

SseRequest == last = Idle /\ \E r \in SseRequests : sseHandler(r)

\* part_000:1234  `await server.connect(transport)` settles: the handler
\* returns with the stream open, or the catch answers 500 (part_000:1258).
\* The entry of the transport stays in the table either way.
SseConnectDone(t) ==
    /\ last = Idle
    /\ t \in DOMAIN trs
    /\ trs[t].state = "connecting"
    /\ \E ok \in BOOLEAN :
         /\ trs' = [trs EXCEPT ![t].state = IF ok THEN "ready" ELSE "failed"]
         /\ last' = Observation("resume", NoRequest,
                                IF ok THEN NoResponse
                                ELSE PlainResponse(500, "internal_server_error"),
                                t, FALSE, FALSE, FALSE, NoHeader)
    /\ UNCHANGED <<env, transports, servers, proc, tools>>

\* The SDK closes transport t (the client went away, or close() was called)
\* and calls its onclose, any number of times.
SseClose(t) ==
    /\ last = Idle
    /\ t \in DOMAIN trs
    /\ sseOnclose(t)
    /\ trs' = [trs EXCEPT ![t].closed = TRUE]
    /\ last' = Observation(IF trs[t].closed THEN "close_again" ELSE "close",
                           [NoRequest EXCEPT !.sid = trs[t].sessionId],
                           NoResponse, t, FALSE, FALSE, FALSE, NoHeader)
    /\ UNCHANGED <<env, servers, proc, tools>>

NextSse ==
    \/ SseRequest
    \/ \E t \in 1..MaxSessions : SseConnectDone(t)
    \/ \E t \in 1..MaxSessions : SseClose(t)
    \/ Return

InitSse == Init /\ env = [production |-> FALSE, dnsFlag |-> FALSE]

SpecSse == InitSse /\ [][NextSse]_vars

----------------------------------------------------------------------------
(* Properties *)

\* The step is a run of the request handler (on request last'.req).
Handled == last = Idle /\ last'.kind = "request"

\* r gets past CORS, the origin check, the Accept check and body parsing.
PassesFront(r) ==
    /\ setCorsHeaders(r)
    /\ ~OriginForbidden(r)
    /\ ~NotAcceptable(r)
    /\ ~ParseError(r)

\* The versions the documentation lists as supported.
DocumentedVersions == {"2025-06-18", "2025-03-26"}

\* Ids of sessions that were initialized and whose transport has been closed.
ClosedSessions == {trs[t].sessionId : t \in {u \in DOMAIN trs : trs[u].closed}} \ {NoHeader}

TablesUnchanged == UNCHANGED <<transports, servers, trs>>

\* C1: a POST, GET or DELETE to /mcp that passes the origin, Accept,
\* body-parse and version checks and carries a non-empty mcp-session-id that
\* is not the id of a live session is answered with a JSON-RPC error with
\* status 400, creates no session and reaches no transport.
C1_UnknownSessionRejected ==
    [][LET r == last'.req IN
        (/\ Handled
         /\ r.method /= "OPTIONS"
         /\ Truthy(r.sid)
         /\ r.sid \notin DOMAIN transports
         /\ PassesFront(r)
         /\ ~VersionRejected(r))
        => (/\ last'.resp.status = 400
            /\ last'.resp.jsonrpc
            /\ last'.handedTo = 0
            /\ ~last'.built
            /\ TablesUnchanged)]_vars

C3_SessionIdsDistinct ==
    /\ \A t1, t2 \in DOMAIN trs :
          (t1 /= t2 /\ trs[t1].sessionId /= NoHeader)
             => trs[t1].sessionId /= trs[t2].sessionId
    /\ \A id \in DOMAIN transports : trs[transports[id]].sessionId = id
    /\ \A t \in DOMAIN trs :
          (trs[t].sessionId /= NoHeader /\ ~trs[t].closed)
             => trs[t].sessionId \in DOMAIN transports

C3_Witness ==
    /\ Cardinality(DOMAIN transports) = 1
    /\ Cardinality(ClosedSessions) = 1
    /\ last.kind = "resume"
    /\ last.resp.status = 200

\* C4 as stated: every POST declaring a version outside the supported set
\* is answered with 400 and an error whose data lists the supported versions
\* and the requested one.
C4_BadVersionAlways400 ==
    (/\ last.kind = "request"
     /\ last.req.method = "POST"
     /\ Truthy(last.req.version)
     /\ last.req.version \notin DocumentedVersions)
    => (/\ last.resp.status = 400
        /\ last.resp.jsonrpc
        /\ {last.resp.data.supported[i] : i \in DOMAIN last.resp.data.supported} = DocumentedVersions
        /\ last.resp.data.requested = last.req.version)

\* C4 as amended: every POST that passes the origin, Accept and body-parse
\* checks and declares a non-empty version outside the supported set is
\* answered with 400 and a JSON-RPC error (-32602) whose data lists exactly
\* the supported versions and the requested one.
C4_BadVersion400 ==
    (/\ last.kind = "request"
     /\ last.req.method = "POST"
     /\ Truthy(last.req.version)
     /\ last.req.version \notin DocumentedVersions
     /\ PassesFront(last.req))
    => (/\ last.resp.status = 400
        /\ last.resp.jsonrpc
        /\ last.resp.code = -32602
        /\ {last.resp.data.supported[i] : i \in DOMAIN last.resp.data.supported} = DocumentedVersions
        /\ last.resp.data.requested = last.req.version)

C4_Witness ==
    /\ last.kind = "request"
    /\ last.req.method = "POST"
    /\ last.req.version = "9999-99-99"
    /\ last.resp.status = 400
    /\ last.resp.data.requested = "9999-99-99"

\* C5: a request that declares a supported version or omits the header is
\* never answered with the unsupported-version error, and when it gets past
\* the checks before the version check, the negotiated version is the one
\* declared, or 2025-03-26 when the header is omitted.
C5_SupportedVersionAccepted ==
    (/\ last.kind = "request"
     /\ last.req.version \in DocumentedVersions \cup {NoHeader})
    => (/\ last.resp.message /= "unsupported_protocol_version"
        /\ last.resp.data = NoData
        /\ (PassesFront(last.req) /\ last.req.method /= "OPTIONS")
             => last.negotiated = IF last.req.version = NoHeader
                                  THEN "2025-03-26" ELSE last.req.version)

C5_Witness ==
    /\ last.kind = "request"
    /\ last.req.version = NoHeader
    /\ last.negotiated = "2025-03-26"
    /\ last.handedTo /= 0

\* C6: a request that declares a (non-empty) unsupported version does no
\* session work: the session table is not read, no server instance is
\* built, no transport is invoked and no table changes; if it gets past the
\* earlier checks its answer is the unsupported-version error.
C6_BadVersionNoSessionWork ==
    [][LET r == last'.req IN
        (/\ Handled
         /\ Truthy(r.version)
         /\ r.version \notin DocumentedVersions)
        => (/\ ~last'.tableRead
            /\ ~last'.built
            /\ last'.handedTo = 0
            /\ TablesUnchanged
            /\ (PassesFront(r) /\ r.method /= "OPTIONS")
                 => last'.resp.message = "unsupported_protocol_version")]_vars

C6_Witness ==
    /\ last.kind = "request"
    /\ last.req.version = "9999-99-99"
    /\ last.req.sid \in DOMAIN transports
    /\ last.resp.message = "unsupported_protocol_version"

\* C7 as stated: every POST, GET or DELETE without a session id, other than
\* a POST whose body is an initialize request, is answered with status 400.
C7_NoSessionAlways400 ==
    (/\ last.kind = "request"
     /\ last.req.method \in {"POST", "GET", "DELETE"}
     /\ ~Truthy(last.req.sid)
     /\ ~(last.req.method = "POST" /\ last.req.body = "initialize"))
    => last.resp.status = 400

\* C7 as amended: a transport is built only for a POST without a session id
\* whose body is an initialize request, and a session is registered only
\* when such a request resumes; every other POST, GET or DELETE without a
\* session id that passes the origin and Accept checks is answered with a
\* JSON-RPC error of status 400 and changes no table.
C7_OnlyInitializeCreates ==
    [][/\ Len(trs') > Len(trs)
          => (/\ last'.kind = "request"
              /\ last'.req.method = "POST"
              /\ ~Truthy(last'.req.sid)
              /\ last'.req.body = "initialize")
       /\ ~(DOMAIN transports' \subseteq DOMAIN transports)
          => (/\ last'.kind = "resume"
              /\ trs[last'.handedTo].state = "connecting")
       /\ LET r == last'.req IN
            (/\ Handled
             /\ r.method \in {"POST", "GET", "DELETE"}
             /\ ~Truthy(r.sid)
             /\ ~(r.method = "POST" /\ r.body = "initialize")
             /\ setCorsHeaders(r) /\ ~OriginForbidden(r) /\ ~NotAcceptable(r))
            => (/\ last'.resp.status = 400
                /\ last'.resp.jsonrpc
                /\ last'.handedTo = 0
                /\ TablesUnchanged)]_vars

C7_Witness ==
    /\ last.kind = "request"
    /\ last.req.method = "POST"
    /\ last.req.sid = NoHeader
    /\ last.req.body = "other"
    /\ last.resp.message = "no_valid_session"
    /\ DOMAIN transports /= {}

\* C8: a request handed to a transport bears that transport's own session
\* id, and the transport is the one registered under that id.
C8_RoutedToOwnTransport ==
    [][LET r == last'.req IN
        (Handled /\ last'.handedTo /= 0)
        => (/\ trs[last'.handedTo].sessionId = r.sid
            /\ r.sid \in DOMAIN transports
            /\ transports[r.sid] = last'.handedTo)]_vars

C8_Witness ==
    /\ last.kind = "request"
    /\ last.handedTo = 2
    /\ last.req.sid = trs[2].sessionId
    /\ Cardinality(DOMAIN transports) = 2

\* C9: closing is idempotent and raises no error: a close that comes second
\* (onclose of a transport that is already closed or has no session, the
\* delete of the shutdown loop after transport.close() has run onclose)
\* leaves both tables unchanged, and an explicit termination (DELETE) bearing
\* an id that is not in the table raises no error in the handler (no 500)
\* and leaves the tables unchanged.
C9_CloseNeverRaises ==
    [][/\ (last'.kind = "close_again"
           \/ (last'.kind = "close" /\ ~Truthy(last'.req.sid))
           \/ last'.kind = "shutdown_delete")
          => UNCHANGED <<transports, servers>>
       /\ (/\ Handled
           /\ last'.req.method = "DELETE"
           /\ Truthy(last'.req.sid)
           /\ last'.req.sid \notin DOMAIN transports
           /\ setCorsHeaders(last'.req)
           /\ ~OriginForbidden(last'.req))
          => (last'.resp.status /= 500 /\ TablesUnchanged)]_vars

\* The part of C9 that holds: a close that comes second changes neither
\* table, and a DELETE bearing the id of a closed session is answered
\* without an internal error.
C9_SecondCloseNoOp ==
    [][/\ (last'.kind = "close_again"
           \/ (last'.kind = "close" /\ ~Truthy(last'.req.sid))
           \/ last'.kind = "shutdown_delete")
          => UNCHANGED <<transports, servers>>
       /\ (/\ Handled
           /\ last'.req.method = "DELETE"
           /\ last'.req.sid \in ClosedSessions)
          => (last'.resp.status /= 500 /\ TablesUnchanged)]_vars

C9_Witness ==
    /\ last.kind \in {"close_again", "shutdown_delete"}
    /\ last.req.sid \in ClosedSessions
    /\ DOMAIN transports /= {}
    /\ runs /= <<>>

\* C10 as stated: every POST whose Accept header does not list both
\* application/json and text/event-stream is answered with status 406.
C10_BadAcceptAlways406 ==
    (/\ last.kind = "request"
     /\ last.req.method = "POST"
     /\ ~({"application/json", "text/event-stream"} \subseteq last.req.accept))
    => last.resp.status = 406

\* C10 as amended: every POST that passes the origin checks and whose Accept
\* header does not list both application/json and text/event-stream is
\* answered with a JSON-RPC error of status 406 before its body is read, is
\* handed to no transport and changes no table.
C10_BadAccept406 ==
    [][LET r == last'.req IN
        (/\ Handled
         /\ r.method = "POST"
         /\ ~({"application/json", "text/event-stream"} \subseteq r.accept)
         /\ setCorsHeaders(r) /\ ~OriginForbidden(r))
        => (/\ last'.resp.status = 406
            /\ last'.resp.jsonrpc
            /\ ~last'.bodyRead
            /\ ~last'.built
            /\ last'.handedTo = 0
            /\ TablesUnchanged)]_vars

C10_Witness ==
    /\ last.kind = "request"
    /\ last.req.accept = {"application/json"}
    /\ last.req.body = "initialize"
    /\ last.resp.status = 406

\* C11 as stated: every POST whose body is not well-formed JSON is answered
\* with status 400 and JSON-RPC code -32700.
C11_MalformedAlways400 ==
    (/\ last.kind = "request"
     /\ last.req.method = "POST"
     /\ last.req.body = "invalid_json")
    => (last.resp.status = 400 /\ last.resp.code = -32700)

\* C11 as amended: every POST that passes the origin checks and the Accept
\* check and whose body is not well-formed JSON is answered by the handler
\* with a JSON-RPC error of status 400 and code -32700, whatever session id
\* it carries; it reads no table, builds no server, reaches no transport and
\* changes no table.
C11_MalformedRejected ==
    [][LET r == last'.req IN
        (/\ Handled
         /\ r.method = "POST"
         /\ r.body = "invalid_json"
         /\ setCorsHeaders(r) /\ ~OriginForbidden(r) /\ ~NotAcceptable(r))
        => (/\ last'.resp = JsonRpcError(400, -32700, "parse_error")
            /\ ~last'.tableRead
            /\ ~last'.built
            /\ last'.handedTo = 0
            /\ TablesUnchanged)]_vars

C11_Witness ==
    /\ last.kind = "request"
    /\ last.req.body = "invalid_json"
    /\ last.req.sid \in DOMAIN transports
    /\ last.resp.code = -32700

\* C12 as stated: GET /health is always answered with status 200.
C12_HealthAlways200 ==
    (last.kind = "request" /\ last.req.method = "GET" /\ last.req.path = "/health") => last.resp.status = 200

\* C12 as amended: a GET /health that passes the CORS gate is answered with
\* status 200 and the fixed "ok" payload with a timestamp, whatever sessions
\* are live and whatever session-id or protocol-version header it carries,
\* and handling it reads and changes no table and reaches no transport.
C12_HealthOk ==
    [][LET r == last'.req IN
        (Handled /\ r.method = "GET" /\ r.path = "/health" /\ setCorsHeaders(r))
        => (/\ last'.resp = PlainResponse(200, "status_ok_timestamp")
            /\ ~last'.tableRead
            /\ last'.handedTo = 0
            /\ TablesUnchanged)]_vars

C12_Witness ==
    /\ last.kind = "request"
    /\ last.req.method = "GET" /\ last.req.path = "/health"
    /\ last.req.sid = "constructor"
    /\ last.req.version = "9999-99-99"
    /\ last.resp.status = 200
    /\ Cardinality(DOMAIN transports) = 1
    /\ ClosedSessions /= {}

\* C13: every failure response the request handler writes is a JSON-RPC
\* error envelope with a status in {400, 403, 404, 406, 500}.
C13_FailuresAreJsonRpc ==
    (/\ last.kind = "request"
     /\ last.resp.by = "handler"
     /\ last.resp.status >= 400)
    => (/\ last.resp.jsonrpc
        /\ last.resp.status \in {400, 403, 404, 406, 500})

\* C14: an exception thrown while a request is handled (before or after the
\* response headers are written) is answered with status 500, starts no
\* shutdown, ends no process and leaves the session tables as they are.
C14_ExceptionContained ==
    [][(/\ last = Idle
        /\ last'.kind \in {"request", "resume"}
        /\ last'.resp.message \in {"internal_server_error", "headers_sent"})
       => (/\ last'.resp.status = 500
           /\ runs' = runs
           /\ exit' = exit
           /\ listening' = listening
           /\ transports' = transports
           /\ servers' = servers)]_vars

\* C15: a request whose processing does not complete (an initialize request
\* suspended in server.connect) is eventually answered (by the timeout),
\* unless the process ends first.
C15_SuspendedRequestAnswered ==
    \A t \in 1..MaxSessions :
        (t \in DOMAIN trs /\ trs[t].state = "connecting")
            ~> (~(t \in DOMAIN trs /\ trs[t].state = "connecting") \/ exit /= "running")

\* C16: when the process has exited with code 0, no session remains in the
\* session table or in the per-session server table.
C16_GracefulExitLeavesNoSession ==
    exit = "exit 0" => (DOMAIN transports = {} /\ DOMAIN servers = {})

\* C17: while a shutdown is closing sessions the server no longer accepts
\* connections, and once a shutdown has begun no transport is built and no
\* session is registered.
C17_NoSessionAfterClosingBegan ==
    [][/\ (\E i \in DOMAIN runs' : runs'[i].pending /= {}) => ~listening'
       /\ runs /= <<>> => (/\ Len(trs') = Len(trs)
                           /\ DOMAIN transports' \subseteq DOMAIN transports)]_vars

\* C18: once a shutdown has been initiated the process eventually exits,
\* whether or not the close of a session's transport ever completes.
C18_ShutdownExits == (runs /= <<>>) ~> (exit /= "running")

\* C19: a tool call on a live session in which the handler, or the upstream
\* helper it calls, raised an exception is answered with status 200 by a
\* result whose error flag is set, not by a JSON-RPC error; a POST whose body
\* is not well-formed JSON is answered with a JSON-RPC error envelope whose
\* status is 4xx.
C19_ThrowingCallFlagged ==
    /\ (last.kind = "tool_result" /\ call.raised)
          => (/\ last.resp.status = 200
              /\ ~last.resp.jsonrpc
              /\ call.isError
              /\ ~call.protocolError)
    /\ (last.kind = "request" /\ last.req.method = "POST" /\ last.req.body = "invalid_json")
          => (last.resp.jsonrpc /\ last.resp.status \in 400..499)

\* The results that report a failure of the tool's execution, by the kinds
\* of failure C20 names.
RejectedInputTexts ==
    {"Error: Query parameter is required", "Error: Query contains no valid characters",
     "Invalid PBS item code", "Invalid schedule_code"}

NoMatchTexts ==
    {"No drugs found matching", "No drug found with NDC", "No PBS item found for code",
     "No restrictions found for", "No results from /endpoint"}

UpstreamFailureTexts ==
    {"Error searching drugs", "Error calling PBS API", "Error fetching drug details",
     "pbsGet rejected", "pbsGetCached rejected"}

\* C20: every tool result that reports a failure of the tool's execution
\* (rejected input, no matching record, upstream unreachable or of an
\* unexpected shape) is a successful protocol response with the error flag
\* set.
C20_FailureResultsFlagged ==
    (/\ last.kind = "tool_result"
     /\ call.text \in RejectedInputTexts \cup NoMatchTexts \cup UpstreamFailureTexts)
    => (/\ call.isError
        /\ ~call.protocolError
        /\ last.resp.status = 200)

\* C21: a tool call on a live session S closes nothing, whatever its outcome
\* (a result, a handler error, an unregistered tool name, refused
\* arguments): the step changes neither table, S is still registered for the
\* transport that served the call and that transport is not closed; and a
\* request bearing the id of a registered session that passes the checks
\* before routing is handed to the transport registered under that id.
C21_ToolCallKeepsSession ==
    [][/\ last'.kind = "tool_result"
          => (/\ TablesUnchanged
              /\ last'.req.sid \in DOMAIN transports'
              /\ transports'[last'.req.sid] = last'.handedTo
              /\ last'.req.sid \in DOMAIN servers'
              /\ ~trs'[last'.handedTo].closed)
       /\ (/\ Handled
           /\ last'.req.sid \in DOMAIN transports
           /\ ReachesRouting(last'.req))
          => last'.handedTo = transports[last'.req.sid]]_vars

\* Scenario A: an unregistered tool was called on a session, and a later
\* request bearing that session's id is handed to its transport.
C21_Witness ==
    /\ last.kind = "request"
    /\ call.tool = UnregisteredTool
    /\ call.protocolError
    /\ last.req.sid \in DOMAIN transports
    /\ last.handedTo = transports[last.req.sid]

\* The fetches that have made their upstream send.
SentFetches == {i \in DOMAIN fetches : fetches[i].pc \in {"sent", "returned", "failed"}}

\* C22: the times of any two upstream sends differ by at least the minimum
\* interval, whoever the callers are; every fetch that was not served from
\* the cache and is past the throttle has made exactly one send, a fetch
\* that waits or hit the cache none, and the sends are as many as those
\* fetches, one for each.
C22_SendsSeparated ==
    /\ \A i, j \in DOMAIN sends :
            i < j => sends[j].at - sends[i].at >= PBS_MIN_INTERVAL_MS
    /\ \A i \in DOMAIN fetches :
            fetches[i].nsent = IF i \in SentFetches THEN 1 ELSE 0
    /\ Len(sends) = Cardinality(SentFetches)
    /\ {sends[j].by : j \in DOMAIN sends} = SentFetches

\* Three concurrent fetches, two of them to distinct keys: two have sent,
\* one minimum interval apart, and the third still waits.
C22_Witness ==
    /\ Len(sends) = 2
    /\ sends[1].key /= sends[2].key
    /\ sends[2].at - sends[1].at = PBS_MIN_INTERVAL_MS
    /\ Len(fetches) = 3
    /\ fetches[3].pc = "waiting"
    /\ fetches[1].pc = "sent"

\* The step is a call of fetch; NewFetch is the record of that call.
FetchCalled == Len(fetches') = Len(fetches) + 1

NewFetch == fetches'[Len(fetches')]

\* C23: a fetch for a key whose entry is younger than the TTL makes no
\* upstream send and returns the payload of the entry, in whatever order
\* its parameters are written; a fetch for a key whose entry has reached the
\* TTL is not served from it: the entry is evicted and the fetch makes one
\* upstream send (at most one in the step of the call, exactly one once it
\* has completed).  Every entry holds the payload a successful fetch for its
\* key returned.
C23_CacheServesWithinTtl ==
    [][/\ FetchCalled =>
            LET f == NewFetch
                k == f.key
            IN  /\ (k \in DOMAIN cache /\ now - cache[k].at < 300000)
                       => (/\ f.pc = "hit"
                           /\ f.nsent = 0
                           /\ f.payload = cache[k].payload
                           /\ UNCHANGED <<sends, cache>>)
                /\ (k \in DOMAIN cache /\ now - cache[k].at >= 300000)
                       => (/\ f.pc \in {"sent", "waiting"}
                           /\ f.payload = 0
                           /\ k \notin DOMAIN cache'
                           /\ Len(sends') <= Len(sends) + 1)
       /\ \A k \in DOMAIN cache' :
            \E i \in DOMAIN fetches' :
                /\ fetches'[i].key = k
                /\ fetches'[i].pc = "returned"
                /\ fetches'[i].payload = cache'[k].payload
       /\ \A i \in DOMAIN fetches' :
            fetches'[i].pc \in {"returned", "failed"} => fetches'[i].nsent = 1]_vars

\* A fetch returned, a second one with the same parameters in another order
\* was served from the cache with the same payload, and a third one, after
\* the TTL, has made a new send.
C23_Witness ==
    /\ Len(fetches) = 3
    /\ fetches[1].pc = "returned"
    /\ fetches[2].pc = "hit"
    /\ fetches[2].params /= fetches[1].params
    /\ fetches[2].payload = fetches[1].payload
    /\ fetches[3].key = fetches[1].key
    /\ fetches[3].pc = "sent"
    /\ Len(sends) = 2
    /\ sends[2].at - sends[1].at >= 300000

\* C24: a fetch for a key with a valid entry returns in the step of the
\* call, whether or not other callers are waiting for the throttle: it is
\* never suspended (no fetch becomes a hit after the step of its call), and
\* it changes neither the throttle timestamp, nor the sends, nor any other
\* caller.
C24_HitBypassesThrottle ==
    [][/\ (/\ FetchCalled
           /\ NewFetch.key \in DOMAIN cache
           /\ now - cache[NewFetch.key].at < 300000)
          => NewFetch.pc = "hit"
       /\ (FetchCalled /\ NewFetch.pc = "hit")
          => (/\ UNCHANGED <<lastSentAt, sends>>
              /\ \A i \in DOMAIN fetches : fetches'[i] = fetches[i])
       /\ \A i \in DOMAIN fetches :
            fetches'[i].pc = "hit" => fetches[i].pc = "hit"]_vars

\* A fetch was served from the cache while an earlier caller still waits
\* for the throttle.
C24_Witness ==
    \E i, j \in DOMAIN fetches :
        /\ i < j
        /\ fetches[i].pc = "waiting"
        /\ fetches[j].pc = "hit"
        /\ now - lastSentAt < 20000

\* The fetch made last for key k, among the fetches made so far, failed.
LastForKeyFailed(k) ==
    \E i \in DOMAIN fetches :
        /\ fetches[i].key = k
        /\ fetches[i].pc = "failed"
        /\ \A j \in DOMAIN fetches : j > i => fetches[j].key /= k

\* The failure of a fetch stores nothing, and a failed fetch has made one
\* send and makes no other.
FailureNotCachedNorRetried ==
    \A i \in DOMAIN fetches :
        /\ (fetches[i].pc = "sent" /\ fetches'[i].pc = "failed")
              => (cache' = cache /\ fetches'[i].nsent = 1 /\ fetches'[i].payload = 0)
        /\ fetches[i].pc = "failed" => fetches'[i] = fetches[i]

\* C25 as stated: the failure of a fetch stores nothing in the cache and the
\* fetch is not retried (one send), and the next fetch made for the key of
\* a failed fetch makes a fresh upstream send.
C25_NextFetchAlwaysSends ==
    [][/\ FailureNotCachedNorRetried
       /\ (FetchCalled /\ LastForKeyFailed(NewFetch.key)) => NewFetch.pc /= "hit"]_vars

\* C25 as amended: the failure of a fetch stores nothing in the cache and
\* the fetch is not retried (one send); a later fetch for the key is served
\* from the cache only with the payload of a fetch for that key that
\* succeeded, and makes a fresh upstream send when none has.
C25_FailureNotCached ==
    [][/\ FailureNotCachedNorRetried
       /\ (FetchCalled /\ NewFetch.pc = "hit")
          => \E i \in DOMAIN fetches :
                /\ fetches[i].key = NewFetch.key
                /\ fetches[i].pc = "returned"
                /\ fetches[i].payload = NewFetch.payload]_vars

\* A fetch failed, and the next fetch for its key has made a send of its own.
C25_Witness ==
    /\ Len(fetches) >= 2
    /\ fetches[1].pc = "failed"
    /\ fetches[2].key = fetches[1].key
    /\ fetches[2].pc \in {"sent", "returned"}
    /\ Len(sends) = 2
    /\ DOMAIN cache = {} \/ cache[fetches[1].key].payload = 2

\* The keys the claim lets through for an endpoint: its allow-list, if it
\* has one, and the common controls.
AllowedFor(endpoint) ==
    (IF endpoint \in DOMAIN perEndpoint THEN perEndpoint[endpoint] ELSE {})
    \cup {"limit", "page", "sort", "sort_fields", "fields", "filter"}

\* C26: the parameters pbs-search hands to the gateway are exactly the
\* entries of the caller's map whose key is in the allow-list of the
\* endpoint or a common control, values unchanged (the common controls alone
\* for an endpoint with no allow-list); and every parameter map a tool
\* hands to the gateway has only keys allowed for its endpoint.
C26_OnlyAllowedParamsPass ==
    (last.kind = "tool_result" /\ "requests" \in DOMAIN call)
    => /\ \A i \in DOMAIN call.requests :
            DOMAIN call.requests[i].params \subseteq AllowedFor(call.requests[i].endpoint)
       /\ (call.tool = "pbs-search" /\ call.args.params /= <<>>)
            => (/\ Len(call.requests) = 1
                /\ call.requests[1].endpoint = call.args.endpoint
                /\ call.requests[1].params =
                       [k \in DOMAIN call.args.params[1] \cap AllowedFor(call.args.endpoint)
                           |-> call.args.params[1][k]])

\* 4 to 6 digits followed by one capital letter.
WellFormedItemCode(s) ==
    /\ Len(s) \in 5..7
    /\ \A i \in 1..(Len(s) - 1) : s[i] \in {"0", "1", "2", "3", "4", "5", "6", "7", "8", "9"}
    /\ s[Len(s)] \in {"P", "X"}

\* Empty, or nothing but digits.
NumericOrEmpty(s) ==
    \A i \in 1..Len(s) : s[i] \in {"0", "1", "2", "3", "4", "5", "6", "7", "8", "9"}

\* C29: no PBS tool hands the gateway a request whose item code (pbs_code)
\* is not 4 to 6 digits followed by a capital letter, or whose schedule_code
\* is neither empty nor all digits.
C29_CodesValidatedBeforeUpstream ==
    (last.kind = "tool_result" /\ "requests" \in DOMAIN call)
    => \A i \in DOMAIN call.requests :
          LET params == call.requests[i].params
          IN  /\ "pbs_code" \in DOMAIN params => WellFormedItemCode(params["pbs_code"])
              /\ "schedule_code" \in DOMAIN params => NumericOrEmpty(params["schedule_code"])

\* C27: the result of a tool call does not depend on the calls made before
\* in another session: a search-drugs call that follows a search-drugs call
\* of another session (one that went past the rate limit) is not refused
\* for the rate limit.
C27_NoCrossSessionState ==
    [][(/\ last.kind = "request"
        /\ last'.kind = "tool_result"
        /\ call'.tool = "search-drugs"
        /\ call.tool = "search-drugs"
        /\ call.text \in {"Drug Search Results", "No drugs found matching",
                          "Error searching drugs"}
        /\ call.sid /= call'.sid)
       => call'.text /= "Error: Rate limit exceeded"]_vars

\* C28: when the upstream request of a helper (FDA lookup by NDC, RxNorm
\* search, PubMed search, WHO indicator query) fails, the tool response
\* signals an error.
C28_UpstreamFailureSignalled ==
    (/\ last.kind = "tool_result"
     /\ call.tool \in {"get-drug-details", "search-drug-nomenclature",
                       "search-medical-literature", "get-health-statistics"}
     /\ call.upstreamFailed)
    => call.isError

\* The request of the step is stopped at the origin checks: answered 403
\* before its body is read, with no session looked up or created and no
\* transport built or invoked.
StoppedAtOrigin ==
    /\ last'.resp.status = 403
    /\ last'.resp.jsonrpc
    /\ ~last'.bodyRead
    /\ ~last'.tableRead
    /\ ~last'.built
    /\ last'.handedTo = 0
    /\ TablesUnchanged

\* C30 as stated: with DNS-rebinding protection enabled, every request to
\* /mcp other than OPTIONS that carries an Origin header outside the allowed
\* origins is stopped with 403.
C30_ForeignOriginAlways403 ==
    [][LET r == last'.req IN
        (/\ Handled
         /\ env.production \/ env.dnsFlag
         /\ r.method /= "OPTIONS"
         /\ r.origin \notin {"<absent>", "http://localhost:3000"})
        => StoppedAtOrigin]_vars

\* C30 as amended: with DNS-rebinding protection enabled, every request to
\* /mcp other than OPTIONS that carries a non-empty Origin header outside
\* the allowed origins of the check is stopped with 403.
C30_ForeignOrigin403 ==
    [][LET r == last'.req IN
        (/\ Handled
         /\ env.production \/ env.dnsFlag
         /\ r.method /= "OPTIONS"
         /\ r.origin \notin {"<absent>", "", "http://localhost:3000"})
        => StoppedAtOrigin]_vars

\* Outside production, with the protection switched on by its flag, a
\* request bearing the id of a live session and a foreign Origin was
\* answered 403.
C30_Witness ==
    /\ last.kind = "request"
    /\ env.dnsFlag /\ ~env.production
    /\ last.req.sid \in DOMAIN transports
    /\ last.req.method = "POST"
    /\ last.req.origin = "http://evil.example"
    /\ last.resp.status = 403

\* C31: between the steps of the event loop the transport table and the
\* per-session server table hold the same session ids: a session that
\* leaves one (transport close, DELETE, graceful shutdown) leaves the other.
C31_TablesHoldSameSessions == DOMAIN transports = DOMAIN servers

\* A shutdown has closed one session, released from both tables, and
\* another session, registered since, is in both.
C31_Witness ==
    /\ runs /= <<>>
    /\ \E t \in DOMAIN trs :
          /\ trs[t].closed
          /\ trs[t].sessionId \in UUIDs
          /\ trs[t].sessionId \notin DOMAIN transports \cup DOMAIN servers
    /\ DOMAIN servers /= {}

\* C32: a session id that leaves the session table is the id of a closed
\* transport, a closed transport stays closed, and the id of a closed
\* transport is in neither table after any step: a closed session never
\* re-enters the table.
C32_ClosedIsTerminal ==
    [][/\ \A id \in DOMAIN transports \ DOMAIN transports' :
            \E t \in DOMAIN trs' : trs'[t].closed /\ trs'[t].sessionId = id
       /\ \A t \in DOMAIN trs :
            (trs[t].closed /\ trs[t].sessionId \in UUIDs)
               => (/\ trs'[t].closed
                   /\ trs'[t].sessionId = trs[t].sessionId
                   /\ trs[t].sessionId \notin DOMAIN transports' \cup DOMAIN servers')]_vars

\* After the close of a session another session was initialized, and a
\* POST bearing the closed id has been answered without entering the table.
C32_Witness ==
    /\ last.kind = "request"
    /\ last.req.method = "POST"
    /\ \E t1, t2 \in DOMAIN trs :
          /\ t1 < t2
          /\ trs[t1].closed
          /\ trs[t1].sessionId = last.req.sid
          /\ last.req.sid \in UUIDs
          /\ ~trs[t2].closed
          /\ trs[t2].sessionId \in DOMAIN transports

\* A tools/call step that ran the search-drugs callback (the SDK did not
\* refuse the call before it).
SearchDrugsRan ==
    /\ last'.kind = "tool_result"
    /\ last.kind = "request"
    /\ call'.tool = "search-drugs"
    /\ call'.text \notin {"Invalid arguments", "Tool not found"}

\* C33 as stated: every search-drugs call that arrives less than 1000 ms after
\* the last admitted call returns the rate-limit error with the error flag
\* set.
C33_LateCallRateLimited ==
    [][(SearchDrugsRan /\ now - lastDrugSearchCall < RateLimitMs)
       => (call'.text = "Error: Rate limit exceeded" /\ call'.isError)]_vars

\* C33, amended: the search-drugs rate limit is one process-wide window that
\* every session shares.  A call that sends the FDA request passed the rate
\* check at least 1000 ms after the previous call that did, and that instant
\* becomes the start of the window; a call whose query passes the checks of
\* index.ts:443-457 and that arrives less than 1000 ms after the last admitted
\* call returns the rate-limit error with the error flag set and sends
\* nothing.
C33_RateLimitProcessWide ==
    [][SearchDrugsRan
       => (/\ call'.requested
              => (/\ now - lastDrugSearchCall >= RateLimitMs
                  /\ lastDrugSearchCall' = now)
           /\ (/\ now - lastDrugSearchCall < RateLimitMs
               /\ call'.text \notin {"Error: Query parameter is required",
                                     "Error: Query contains no valid characters"})
              => (/\ call'.text = "Error: Rate limit exceeded"
                  /\ call'.isError
                  /\ ~call'.requested))]_vars

\* A call of one session is refused inside the window a call of another
\* session opened, after an earlier window has elapsed.
C33_Witness ==
    /\ last.kind = "tool_result"
    /\ call.tool = "search-drugs"
    /\ call.text = "Error: Rate limit exceeded"
    /\ call.isError
    /\ lastDrugSearchCall > RateLimitMs
    /\ now - lastDrugSearchCall < RateLimitMs
    /\ Cardinality(DOMAIN transports) = 2

\* C34: a search-drugs call that is rejected (empty query, query empty after
\* sanitization, rate limit exceeded) sends no upstream request and leaves
\* the rate-limit timestamp as it was; an admitted call sets the timestamp to
\* its own instant before the request and keeps it when the request fails.
C34_RejectedCallKeepsTimestamp ==
    [][SearchDrugsRan
       => (/\ call'.text \in {"Error: Query parameter is required",
                              "Error: Query contains no valid characters",
                              "Error: Rate limit exceeded"}
              => (~call'.requested /\ lastDrugSearchCall' = lastDrugSearchCall)
           /\ call'.text \in {"Drug Search Results", "No drugs found matching",
                              "Error searching drugs"}
              => (call'.requested /\ lastDrugSearchCall' = now)
           /\ call'.upstreamFailed => lastDrugSearchCall' = now)]_vars

\* An admitted call, made after the clock has advanced, whose FDA request
\* failed: its instant is in the timestamp.
C34_Witness ==
    /\ last.kind = "tool_result"
    /\ call.tool = "search-drugs"
    /\ call.upstreamFailed
    /\ call.requested
    /\ lastDrugSearchCall = now
    /\ now > 2 * TickMs

\* The responses written by the MCP routing block (index.ts:1618-1820) or by
\* the transport it hands the request to; "none" is the initialize request
\* suspended at `await server.connect(transport)`.
McpBlockResponses ==
    {"preflight", "invalid_origin", "not_acceptable", "parse_error",
     "unsupported_protocol_version", "no_valid_session", "transport", "none"}

\* The responses of the DELETE termination block (index.ts:1822-1877).
TerminationResponses ==
    {"session_terminated", "session_not_found", "no_session_id_for_termination"}

\* C35 as stated: every request whose path is /mcp is answered inside the MCP
\* routing block.
C35_AnsweredInsideMcpBlock ==
    [][(Handled /\ last'.req.path = "/mcp")
       => last'.resp.message \in McpBlockResponses]_vars

\* C35, amended: every request whose path is /mcp is answered by the CORS
\* check before the routing block, inside the routing block, or by the
\* catch-all of the handler (500); the termination block is never reached,
\* so its responses are never produced; a DELETE bearing a live session id
\* that passes the checks before routing is delegated to that session's
\* transport.
C35_TerminationBlockUnreachable ==
    [][(Handled /\ last'.req.path = "/mcp")
       => (/\ last'.resp.message \notin TerminationResponses
           /\ last'.resp.message \in
                McpBlockResponses \cup {"cors_origin_not_allowed", "internal_server_error"}
           /\ (/\ last'.req.method = "DELETE"
               /\ last'.req.sid \in DOMAIN transports
               /\ ReachesRouting(last'.req))
              => (/\ last'.handedTo = transports[last'.req.sid]
                  /\ last'.resp.by = "transport"))]_vars

\* A DELETE bearing a live session id was served by the session's transport,
\* which closed the session.
C35_Witness ==
    /\ last.kind = "request"
    /\ last.req.method = "DELETE"
    /\ last.req.path = "/mcp"
    /\ last.handedTo \in DOMAIN trs
    /\ last.resp = TransportResponse(TRUE)
    /\ trs[last.handedTo].closed
    /\ trs[last.handedTo].sessionId = last.req.sid
    /\ last.req.sid \notin DOMAIN transports

C37_UnknownSessionIs404 ==
    [][(/\ Handled
        /\ last'.req.method = "POST"
        /\ last'.req.path = "/messages"
        /\ last'.req.sid /= NoHeader
        /\ last'.req.sid \notin DOMAIN transports)
       => last'.resp.status = 404]_vars

\* C37, amended: GET /sse registers a new transport under its session id and
\* the entry is removed when that transport closes; a POST /messages with no
\* sessionId parameter, or an empty one, is answered 400, one with a
\* non-empty sessionId that is not in the table is answered 404, and in both
\* cases no transport handles the message and the table is unchanged; a POST
\* with a live sessionId is handled by the transport registered under it.
C37_SseSessionRouting ==
    [][/\ (Handled /\ last'.req.method = "GET" /\ last'.req.path = "/sse")
          => (/\ Len(trs') = Len(trs) + 1
              /\ trs'[Len(trs')].sessionId \notin DOMAIN transports
              /\ transports' = Put(transports, trs'[Len(trs')].sessionId, Len(trs')))
       /\ (Handled /\ last'.req.method = "POST" /\ last'.req.path = "/messages")
          => (/\ ~Truthy(last'.req.sid)
                 => (last'.resp.status = 400 /\ last'.handedTo = 0 /\ TablesUnchanged)
              /\ (Truthy(last'.req.sid) /\ last'.req.sid \notin DOMAIN transports)
                 => (last'.resp.status = 404 /\ last'.handedTo = 0 /\ TablesUnchanged)
              /\ last'.req.sid \in DOMAIN transports
                 => (/\ last'.handedTo = transports[last'.req.sid]
                     /\ trs[last'.handedTo].sessionId = last'.req.sid
                     /\ last'.resp.by = "transport"
                     /\ TablesUnchanged))
       /\ last'.kind \in {"close", "close_again"}
          => (/\ trs'[last'.handedTo].closed
              /\ transports' = Delete(transports, trs[last'.handedTo].sessionId)
              /\ \A id \in DOMAIN transports' : ~trs'[transports'[id]].closed)]_vars

\* With two streams opened and the first closed, a POST bearing the id of
\* the second was handled by the second transport.
C37_Witness ==
    /\ last.kind = "request"
    /\ last.req.method = "POST"
    /\ last.req.path = "/messages"
    /\ last.handedTo = 2
    /\ last.resp.by = "transport"
    /\ trs[1].closed
    /\ DOMAIN transports = {trs[2].sessionId}

====
